---- MODULE Spec2Model ----
(***************************************************************************)
(* BrainstormAI: the per-session orchestrator                              *)
(* (src/src/services/orchestrator.py), its Decision Stage                  *)
(* (src/src/services/agent_decision.py) and its Reply Stage                *)
(* (src/src/services/agent_reply.py) as one state machine.                 *)
(*                                                                         *)
(* The program is a set of asyncio tasks on one event loop.  A task runs   *)
(* without interruption from one await that really suspends to the next,   *)
(* so every action below is one such run of one task.  task.cancel() only  *)
(* marks the task (field `cancel`); the CancelledError is raised inside    *)
(* the task at the await it is suspended on, when the task runs next.      *)
(*                                                                         *)
(* emit() awaits on_event (src/src/api/ws.py:43-84), which sends the event *)
(* on the websocket and then awaits the database: an emit is modelled as   *)
(* "the event is out, the task is suspended inside emit".                  *)
(***************************************************************************)
EXTENDS Integers, Sequences, FiniteSets, TLC

\* ---------------------------------------------------------------- bounds
\* Things the environment does in one run: messages and stops of the client,
\* an end_session, decisions of the external model that are not "silent",
\* failures the external model raises, seconds that pass.
MaxEvents == 3
\* Items one stream attempt delivers before it ends or fails.
MaxChunks == 1

\* ---------------------------------------------------------------- text
\* A text is a sequence of one-character strings.
WS == {" "}
PUNCT == {",", ":", "FWCOMMA", "FWCOLON"}

RECURSIVE lstrip(_)
lstrip(s) == IF s # <<>> /\ Head(s) \in WS THEN lstrip(Tail(s)) ELSE s

RECURSIVE rstrip(_)
rstrip(s) ==
    IF s # <<>> /\ s[Len(s)] \in WS THEN rstrip(SubSeq(s, 1, Len(s) - 1)) ELSE s

strip(s) == rstrip(lstrip(s))

startswith(s, p) == Len(p) <= Len(s) /\ SubSeq(s, 1, Len(p)) = p

DropFirst(s, n) == SubSeq(s, n + 1, Len(s))

LowerChar(c) ==
    CASE c = "K" -> "k"
      [] c = "B" -> "b"
      [] c = "H" -> "h"
      [] OTHER -> c

lower(s) == [i \in 1..Len(s) |-> LowerChar(s[i])]

\* _consume_leading_duplicate_mention: <<resolved, text to forward>>.
ConsumeLeadingDuplicateMention(buffered_text, target_name) ==
    LET trimmed == lstrip(buffered_text)
        expected == <<"@">> \o target_name
    IN  IF trimmed = <<>> THEN <<FALSE, <<>>>>
        ELSE IF startswith(expected, trimmed) /\ Len(trimmed) < Len(expected)
        THEN <<FALSE, <<>>>>
        ELSE IF startswith(trimmed, expected)
        THEN LET r1 == lstrip(DropFirst(trimmed, Len(expected)))
                 r2 == IF r1 # <<>> /\ Head(r1) \in PUNCT
                       THEN lstrip(Tail(r1)) ELSE r1
             IN  <<TRUE, r2>>
        ELSE <<TRUE, buffered_text>>

\* f"@{mention_target_name} "
MentionPrefix(target_name) == <<"@">> \o target_name \o <<" ">>

\* ---------------------------------------------------------------- inputs
AllAgents == {"a1", "a2", "a3"}
None == "None"
\* The None of a field that otherwise holds a time.
NoTime == 0 - 1

\* SessionConfig values the runs are made under.
Configs ==
    { [agent_cooldown_seconds |-> 1, global_speak_interval_seconds |-> 0,
       max_total_ai_messages |-> 1, pause_timeout_seconds |-> 1,
       silence_end_seconds |-> 2],
      [agent_cooldown_seconds |-> 0, global_speak_interval_seconds |-> 1,
       max_total_ai_messages |-> 0, pause_timeout_seconds |-> 0,
       silence_end_seconds |-> 1] }

\* time.time() when the orchestrator is built: far above every configured
\* duration, so that (now - 0.0) passes every first pacing check.
StartTime == 3

\* AgentDecision values the external model returns.
SilentDecision == [action |-> "silent", target_author_name |-> None, key_points |-> <<>>]
Decisions ==
    { SilentDecision,
      [action |-> "reply_user", target_author_name |-> None, key_points |-> <<" ", "K">>],
      [action |-> "reply_ai", target_author_name |-> <<"B">>, key_points |-> <<>>],
      [action |-> "comment", target_author_name |-> None, key_points |-> <<"k">>] }

\* author_type of the messages handle_new_message is called with
\* (src/src/api/ws.py:147-155 is its only caller).
AuthorTypes == {"user"}

\* Texts of the items a stream delivers (_extract_token_text of the item).
Tokens == { <<>>, <<"h">>, <<"@">>, <<" ">> }

\* ---------------------------------------------------------------- state
VARIABLES
    now,                        \* time.time()
    cfg,                        \* get_settings().session
    agents,                     \* SessionOrchestrator.agents (their ids)
    messages,                   \* SessionOrchestrator.messages
    message_version,            \* _message_version
    runtime_started,            \* _runtime_started
    ended,                      \* _ended
    end_reason,                 \* _end_reason
    generation_paused,          \* _generation_paused
    paused_since,               \* _paused_since
    pending_decisions,          \* _pending_decisions
    last_activity_at,           \* _last_activity_at
    last_global_speak_at,       \* _last_global_speak_at
    total_ai_messages,          \* _total_ai_messages
    recent_key_points,          \* _recent_key_points
    permits,                    \* _decision_semaphore._value
    last_spoke_at,              \* AgentState.last_spoke_at, per agent
    last_seen_message_version,  \* AgentState.last_seen_message_version
    worker,                     \* per agent: the _agent_worker task
    dtask,                      \* per agent: its decision task
    gtask,                      \* per agent: its generation task
    monitor,                    \* the _monitor_lifecycle task
    client,                     \* the websocket handler's call in progress
    closer,                     \* an end_session call in progress
    session_events,             \* runtime_started / session_ended events emitted
    env,                        \* what the environment has used of its bounds
    history                     \* what has happened, for the properties: no action reads it

vars == << now, cfg, agents, messages, message_version, runtime_started, ended,
           end_reason, generation_paused, paused_since, pending_decisions,
           last_activity_at, last_global_speak_at, total_ai_messages,
           recent_key_points, permits, last_spoke_at, last_seen_message_version,
           worker, dtask, gtask, monitor, client, closer, session_events, env, history >>

NoDecisionTask == [pc |-> "none", cancel |-> FALSE, attempt |-> 0, result |-> SilentDecision]
NoGenerationTask ==
    [pc |-> "none", cancel |-> FALSE, mid |-> 0, mention_target_name |-> None,
     full_content |-> <<>>, buffer |-> <<>>, resolved |-> TRUE, attempt |-> 0,
     output_started |-> FALSE, items |-> 0, events |-> <<>>]

InitWith(ags, budget) ==
    /\ now = StartTime
    /\ cfg \in Configs
    /\ agents = ags
    /\ messages = <<>>
    /\ message_version = 0
    /\ runtime_started = FALSE
    /\ ended = FALSE
    /\ end_reason = None
    /\ generation_paused = FALSE
    /\ paused_since = NoTime
    /\ pending_decisions = 0
    /\ last_activity_at = 0
    /\ last_global_speak_at = 0
    /\ total_ai_messages = 0
    /\ recent_key_points = <<>>
    /\ permits = 0
    /\ last_spoke_at = [a \in AllAgents |-> 0]
    /\ last_seen_message_version = [a \in AllAgents |-> 0]
    /\ worker = [a \in AllAgents |->
                    [pc |-> "none", cancel |-> FALSE, decision |-> SilentDecision]]
    /\ dtask = [a \in AllAgents |-> NoDecisionTask]
    /\ gtask = [a \in AllAgents |-> NoGenerationTask]
    /\ monitor = [pc |-> "none", cancel |-> FALSE, wake |-> 0]
    /\ client = [pc |-> "idle", author_type |-> None, id |-> 0]
    /\ closer = [pc |-> "idle"]
    /\ session_events = <<>>
    /\ env = [budget |-> budget, mids |-> 0]
    /\ history = [approved_at |-> [a \in AllAgents |-> NoTime], spared |-> {}]

Init == InitWith({"a1", "a2"}, MaxEvents)
InitSolo == InitWith({"a1"}, MaxEvents)
InitLong == InitWith({"a1"}, MaxEvents + 1)

\* ---------------------------------------------------------------- tasks
\* asyncio.Task.done()
TaskDone(t) == t.pc \in {"returned", "cancelled", "raised"}
WorkerDone(a) == worker[a].pc \in {"none", "done", "crashed"}

\* _decision_tasks: a task is in the set from line 206 to the finally of line 217.
DecisionTasks == {a \in agents : worker[a].pc = "deciding"}
\* _generation_tasks: from line 239 to the finally of line 246.
GenerationTasks == {a \in agents : worker[a].pc = "generating"}

\* task.cancel(): a task that is done is left alone.
CancelTask(t) == IF TaskDone(t) \/ t.pc = "none" THEN t ELSE [t EXCEPT !.cancel = TRUE]

\* stop(), lines 105-107: every decision task that is not done is cancelled.
StopDecisions ==
    [a \in AllAgents |-> IF a \in DecisionTasks THEN CancelTask(dtask[a]) ELSE dtask[a]]

\* A stop() that spares every generation unless forced.
CancelsOnlyForced(force, g) == force

\* stop(), line 110: which generation tasks an interrupt cancels.
CancelsGeneration(force, g) == force \/ ~g.output_started

\* stop(), lines 108-111.
StopGenerations(force) ==
    [a \in AllAgents |->
        IF a \in GenerationTasks /\ CancelsGeneration(force, gtask[a])
        THEN CancelTask(gtask[a]) ELSE gtask[a]]

\* An add_message that leaves the version alone.
AddMessageSameVersion(msg) ==
    /\ messages' = Append(messages, msg)
    /\ message_version' = message_version

\* An add_message that puts the message in front of the log.
AddMessageInFront(msg) ==
    /\ messages' = <<msg>> \o messages
    /\ message_version' = message_version + 1

\* add_message, lines 72-74.
AddMessage(msg) ==
    /\ messages' = Append(messages, msg)
    /\ message_version' = message_version + 1

\* The loop head `while not self._ended` a `continue` returns to, followed by
\* the entry of _wait_for_new_message.
LoopHead(a) == IF ended THEN "done" ELSE "wait"

\* ---------------------------------------------------------------- pacing
KeyPointCapacity == 8

\* (decision.key_points or "").strip().lower(), line 279
NormalKeyPoints(d) == lower(strip(d.key_points))

InSeq(x, q) == \E i \in 1..Len(q) : q[i] = x

\* A deque without maxlen.
DequeAppendUnbounded(q, x) == Append(q, x)

\* deque(maxlen=8).append
DequeAppend(q, x) == IF Len(q) >= KeyPointCapacity THEN Append(Tail(q), x) ELSE Append(q, x)

\* _approve_speech, line 272: the agent's cooldown has not elapsed.
CooldownActive(a) == (now - last_spoke_at[a]) < cfg.agent_cooldown_seconds

\* A pacing check without the duplicate-topic condition.
ApprovesDuplicates(a, d) ==
    /\ ~CooldownActive(a)
    /\ ~(/\ cfg.global_speak_interval_seconds > 0
         /\ (now - last_global_speak_at) < cfg.global_speak_interval_seconds)
    /\ ~(/\ cfg.max_total_ai_messages > 0
         /\ total_ai_messages >= cfg.max_total_ai_messages)

\* _approve_speech, lines 272-281: the value returned.
Approves(a, d) ==
    /\ ~CooldownActive(a)
    /\ ~(/\ cfg.global_speak_interval_seconds > 0
         /\ (now - last_global_speak_at) < cfg.global_speak_interval_seconds)
    /\ ~(/\ cfg.max_total_ai_messages > 0
         /\ total_ai_messages >= cfg.max_total_ai_messages)
    /\ ~(NormalKeyPoints(d) # <<>> /\ InSeq(NormalKeyPoints(d), recent_key_points))

\* An approval that records the key points only.
RecordApprovalKeyPointsOnly(d) ==
    /\ last_global_speak_at' = last_global_speak_at
    /\ recent_key_points' =
          IF NormalKeyPoints(d) # <<>>
          THEN DequeAppend(recent_key_points, NormalKeyPoints(d))
          ELSE recent_key_points

\* _approve_speech, lines 283-285: what an approval records.
RecordApproval(d) ==
    /\ last_global_speak_at' = now
    /\ recent_key_points' =
          IF NormalKeyPoints(d) # <<>>
          THEN DequeAppend(recent_key_points, NormalKeyPoints(d))
          ELSE recent_key_points

\* ---------------------------------------------------------------- Decision Stage
MaxDecisionAttempts == 3

\* A gate that lets every task through.
EnterGateOpen(a, n) ==
    /\ permits' = IF permits > 0 THEN permits - 1 ELSE 0
    /\ dtask' = [dtask EXCEPT ![a].pc = "call", ![a].attempt = n]

\* `async with semaphore` of line 73 for attempt n: the permit is taken at
\* once when one is free, else the task waits for one.
EnterGate(a, n) ==
    IF permits > 0
    THEN /\ permits' = permits - 1
         /\ dtask' = [dtask EXCEPT ![a].pc = "call", ![a].attempt = n]
    ELSE /\ permits' = permits
         /\ dtask' = [dtask EXCEPT ![a].pc = "acquire", ![a].attempt = n]

\* The first run of the decision task: lines 49-73.
D_Start(a) ==
    /\ a \in agents /\ dtask[a].pc = "new"
    /\ \/ /\ dtask[a].cancel
          /\ dtask' = [dtask EXCEPT ![a].pc = "cancelled"]
          /\ UNCHANGED <<permits, env>>
       \/ \* build_decision_prompt or create_chat_agent raises
          /\ ~dtask[a].cancel /\ env.budget > 0
          /\ dtask' = [dtask EXCEPT ![a].pc = "raised"]
          /\ env' = [env EXCEPT !.budget = @ - 1]
          /\ UNCHANGED permits
       \/ /\ ~dtask[a].cancel
          /\ EnterGate(a, 0)
          /\ UNCHANGED env
    /\ UNCHANGED << now, cfg, agents, messages, message_version, runtime_started,
                    ended, end_reason, generation_paused, paused_since,
                    pending_decisions, last_activity_at, last_global_speak_at,
                    total_ai_messages, recent_key_points, last_spoke_at,
                    last_seen_message_version, worker, gtask, monitor, client,
                    closer, session_events, history >>

\* A wait for a permit that a cancellation does not end.
D_AcquireUncancellable(a) ==
    /\ a \in agents /\ dtask[a].pc = "acquire"
    /\ permits > 0
    /\ permits' = permits - 1
    /\ dtask' = [dtask EXCEPT ![a].pc = "call"]
    /\ UNCHANGED << now, cfg, agents, messages, message_version, runtime_started,
                    ended, end_reason, generation_paused, paused_since,
                    pending_decisions, last_activity_at, last_global_speak_at,
                    total_ai_messages, recent_key_points, last_spoke_at,
                    last_seen_message_version, worker, gtask, monitor, client,
                    closer, session_events, env, history >>

\* The task waiting for a permit gets one, or is cancelled while waiting.
D_Acquire(a) ==
    /\ a \in agents /\ dtask[a].pc = "acquire"
    /\ \/ /\ dtask[a].cancel
          /\ dtask' = [dtask EXCEPT ![a].pc = "cancelled"]
          /\ UNCHANGED permits
       \/ /\ ~dtask[a].cancel /\ permits > 0
          /\ permits' = permits - 1
          /\ dtask' = [dtask EXCEPT ![a].pc = "call"]
    /\ UNCHANGED << now, cfg, agents, messages, message_version, runtime_started,
                    ended, end_reason, generation_paused, paused_since,
                    pending_decisions, last_activity_at, last_global_speak_at,
                    total_ai_messages, recent_key_points, last_spoke_at,
                    last_seen_message_version, worker, gtask, monitor, client,
                    closer, session_events, env, history >>

\* Lines 92-111: what the handler does with a failure of attempt n.
RetriesDecision(is_timeout, n) == is_timeout /\ n < MaxDecisionAttempts - 1

\* agent.ainvoke returns, fails or is cancelled: lines 74-111.  Leaving the
\* `async with` gives the permit back in every case.
D_Call(a) ==
    /\ a \in agents /\ dtask[a].pc = "call"
    /\ permits' = permits + 1
    /\ \/ /\ dtask[a].cancel
          /\ dtask' = [dtask EXCEPT ![a].pc = "cancelled"]
          /\ UNCHANGED env
       \/ \* a structured AgentDecision
          /\ ~dtask[a].cancel
          /\ \E d \in Decisions :
                /\ d.action # "silent" => env.budget > 0
                /\ dtask' = [dtask EXCEPT ![a].pc = "returned", ![a].result = d]
                /\ env' = [env EXCEPT !.budget = IF d.action # "silent" THEN @ - 1 ELSE @]
       \/ \* an exception, or a result without a structured AgentDecision
          /\ ~dtask[a].cancel /\ env.budget > 0
          /\ \E is_timeout \in BOOLEAN :
                dtask' = IF RetriesDecision(is_timeout, dtask[a].attempt)
                         THEN [dtask EXCEPT ![a].pc = "backoff"]
                         ELSE [dtask EXCEPT ![a].pc = "returned",
                                            ![a].result = SilentDecision]
          /\ env' = [env EXCEPT !.budget = @ - 1]
    /\ UNCHANGED << now, cfg, agents, messages, message_version, runtime_started,
                    ended, end_reason, generation_paused, paused_since,
                    pending_decisions, last_activity_at, last_global_speak_at,
                    total_ai_messages, recent_key_points, last_spoke_at,
                    last_seen_message_version, worker, gtask, monitor, client,
                    closer, session_events, history >>

\* asyncio.sleep(delay_seconds) of line 104 ends, or is cancelled.
D_Backoff(a) ==
    /\ a \in agents /\ dtask[a].pc = "backoff"
    /\ \/ /\ dtask[a].cancel
          /\ dtask' = [dtask EXCEPT ![a].pc = "cancelled"]
          /\ UNCHANGED permits
       \/ /\ ~dtask[a].cancel
          /\ EnterGate(a, dtask[a].attempt + 1)
    /\ UNCHANGED << now, cfg, agents, messages, message_version, runtime_started,
                    ended, end_reason, generation_paused, paused_since,
                    pending_decisions, last_activity_at, last_global_speak_at,
                    total_ai_messages, recent_key_points, last_spoke_at,
                    last_seen_message_version, worker, gtask, monitor, client,
                    closer, session_events, env, history >>

\* ---------------------------------------------------------------- Agent Worker
\* A wait that records the log version also when it finds the session ended.
W_WaitSeesEnd(a) ==
    /\ a \in agents /\ worker[a].pc = "wait"
    /\ \/ /\ worker[a].cancel
          /\ worker' = [worker EXCEPT ![a].pc = "done", ![a].cancel = FALSE]
          /\ UNCHANGED <<last_seen_message_version, pending_decisions, dtask>>
       \/ /\ ~worker[a].cancel
          /\ ended \/ message_version > last_seen_message_version[a]
          /\ last_seen_message_version' =
                [last_seen_message_version EXCEPT ![a] = message_version]
          /\ IF ended
             THEN /\ worker' = [worker EXCEPT ![a].pc = "done"]
                  /\ UNCHANGED <<pending_decisions, dtask>>
             ELSE IF generation_paused
                  THEN UNCHANGED <<worker, pending_decisions, dtask>>
                  ELSE /\ pending_decisions' = pending_decisions + 1
                       /\ dtask' = [dtask EXCEPT ![a] = [NoDecisionTask EXCEPT !.pc = "new"]]
                       /\ worker' = [worker EXCEPT ![a].pc = "deciding"]
    /\ UNCHANGED << now, cfg, agents, messages, message_version, runtime_started,
                    ended, end_reason, generation_paused, paused_since,
                    last_activity_at, last_global_speak_at, total_ai_messages,
                    recent_key_points, permits, last_spoke_at, gtask, monitor,
                    client, closer, session_events, env, history >>

\* _wait_for_new_message returns (lines 249-265) and the worker runs on to its
\* next await: lines 166-207.
W_Wait(a) ==
    /\ a \in agents /\ worker[a].pc = "wait"
    /\ \/ \* the worker was cancelled in the wait: the error leaves the loop
          /\ worker[a].cancel
          /\ worker' = [worker EXCEPT ![a].pc = "done", ![a].cancel = FALSE]
          /\ UNCHANGED <<last_seen_message_version, pending_decisions, dtask>>
       \/ /\ ~worker[a].cancel
          /\ ended \/ message_version > last_seen_message_version[a]
          /\ IF ended
             THEN /\ worker' = [worker EXCEPT ![a].pc = "done"]
                  /\ UNCHANGED <<last_seen_message_version, pending_decisions, dtask>>
             ELSE /\ last_seen_message_version' =
                        [last_seen_message_version EXCEPT ![a] = message_version]
                  /\ IF generation_paused
                     THEN UNCHANGED <<worker, pending_decisions, dtask>>
                     ELSE /\ pending_decisions' = pending_decisions + 1
                          /\ dtask' = [dtask EXCEPT ![a] = [NoDecisionTask EXCEPT !.pc = "new"]]
                          /\ worker' = [worker EXCEPT ![a].pc = "deciding"]
    /\ UNCHANGED << now, cfg, agents, messages, message_version, runtime_started,
                    ended, end_reason, generation_paused, paused_since,
                    last_activity_at, last_global_speak_at, total_ai_messages,
                    recent_key_points, permits, last_spoke_at, gtask, monitor,
                    client, closer, session_events, env, history >>

\* A finally that leaves the counter alone.
DecrementSkipped(n) == n

\* max(0, self._pending_decisions - 1), line 218
Decrement(n) == IF n - 1 > 0 THEN n - 1 ELSE 0

\* A worker that takes the log for seen when its decision ends.
W_DecidedCaughtUp(a) ==
    /\ a \in agents /\ worker[a].pc = "deciding" /\ TaskDone(dtask[a])
    /\ pending_decisions' = Decrement(pending_decisions)
    /\ dtask' = [dtask EXCEPT ![a] = NoDecisionTask]
    /\ last_seen_message_version' =
          [last_seen_message_version EXCEPT ![a] = message_version]
    /\ IF dtask[a].pc = "cancelled" \/ worker[a].cancel
       THEN worker' = [worker EXCEPT ![a].pc = LoopHead(a), ![a].cancel = FALSE]
       ELSE worker' = [worker EXCEPT ![a].pc = "status",
                          ![a].decision = IF dtask[a].pc = "raised"
                                          THEN SilentDecision ELSE dtask[a].result]
    /\ UNCHANGED << now, cfg, agents, messages, message_version, runtime_started,
                    ended, end_reason, generation_paused, paused_since,
                    last_activity_at, last_global_speak_at, total_ai_messages,
                    recent_key_points, permits, last_spoke_at,
                    gtask, monitor, client, closer,
                    session_events, env, history >>

\* `await decision_task` ends: lines 207-229.
W_Decided(a) ==
    /\ a \in agents /\ worker[a].pc = "deciding" /\ TaskDone(dtask[a])
    /\ pending_decisions' = Decrement(pending_decisions)
    /\ dtask' = [dtask EXCEPT ![a] = NoDecisionTask]
    /\ IF dtask[a].pc = "cancelled" \/ worker[a].cancel
       THEN \* except asyncio.CancelledError: continue
            worker' = [worker EXCEPT ![a].pc = LoopHead(a), ![a].cancel = FALSE]
       ELSE \* the status event is out; the worker is suspended in emit
            worker' = [worker EXCEPT ![a].pc = "status",
                          ![a].decision = IF dtask[a].pc = "raised"
                                          THEN SilentDecision ELSE dtask[a].result]
    /\ UNCHANGED << now, cfg, agents, messages, message_version, runtime_started,
                    ended, end_reason, generation_paused, paused_since,
                    last_activity_at, last_global_speak_at, total_ai_messages,
                    recent_key_points, permits, last_spoke_at,
                    last_seen_message_version, gtask, monitor, client, closer,
                    session_events, env, history >>

\* Lines 128-132 of agent_reply.py: the name the stage mentions, from the
\* decision the worker hands to _generate_reply.
MentionTarget(d) ==
    IF d.action = "reply_ai" /\ d.target_author_name # None
    THEN d.target_author_name ELSE None

\* A worker that does not look at the pause after its decision.
StartsGenerationPaused(a, d) == d.action # "silent" /\ Approves(a, d)

\* Lines 231-236: the worker goes on to a generation.
StartsGeneration(a, d) ==
    /\ d.action # "silent"
    /\ ~generation_paused
    /\ Approves(a, d)

\* emit("status") returns: lines 231-242.
W_AfterStatus(a) ==
    /\ a \in agents /\ worker[a].pc = "status"
    /\ IF worker[a].cancel
       THEN /\ worker' = [worker EXCEPT ![a].pc = "done", ![a].cancel = FALSE,
                                        ![a].decision = SilentDecision]
            /\ UNCHANGED <<gtask, last_global_speak_at, recent_key_points, history>>
       ELSE IF StartsGeneration(a, worker[a].decision)
       THEN /\ RecordApproval(worker[a].decision)
            /\ history' = [history EXCEPT !.approved_at[a] = now]
            /\ gtask' = [gtask EXCEPT ![a] =
                            [NoGenerationTask EXCEPT
                                !.pc = "new",
                                !.mention_target_name = MentionTarget(worker[a].decision)]]
            /\ worker' = [worker EXCEPT ![a].pc = "generating",
                                        ![a].decision = SilentDecision]
       ELSE /\ worker' = [worker EXCEPT ![a].pc = LoopHead(a),
                                        ![a].decision = SilentDecision]
            /\ UNCHANGED <<gtask, last_global_speak_at, recent_key_points, history>>
    /\ UNCHANGED << now, cfg, agents, messages, message_version, runtime_started,
                    ended, end_reason, generation_paused, paused_since,
                    pending_decisions, last_activity_at, total_ai_messages,
                    permits, last_spoke_at, last_seen_message_version, dtask,
                    monitor, client, closer, session_events, env >>

\* A worker for which the failure of its generation ends the session.
W_GeneratedFatal(a) ==
    /\ a \in agents /\ worker[a].pc = "generating" /\ TaskDone(gtask[a])
    /\ gtask' = [gtask EXCEPT ![a] = NoGenerationTask]
    /\ worker' =
          IF gtask[a].pc = "cancelled" \/ worker[a].cancel
          THEN [worker EXCEPT ![a].pc = LoopHead(a), ![a].cancel = FALSE]
          ELSE IF gtask[a].pc = "raised"
          THEN [worker EXCEPT ![a].pc = "crashed"]
          ELSE [worker EXCEPT ![a].pc = LoopHead(a)]
    /\ ended' = (ended \/ gtask[a].pc = "raised")
    /\ end_reason' = IF ~ended /\ gtask[a].pc = "raised" THEN "error" ELSE end_reason
    /\ UNCHANGED << now, cfg, agents, messages, message_version, runtime_started,
                    generation_paused, paused_since,
                    pending_decisions, last_activity_at, last_global_speak_at,
                    total_ai_messages, recent_key_points, permits, last_spoke_at,
                    last_seen_message_version, dtask, monitor, client, closer,
                    session_events, env, history >>

\* A worker that goes back to its loop without awaiting its generation.
W_GeneratedEarly(a) ==
    /\ a \in agents /\ worker[a].pc = "generating"
    /\ gtask' = IF TaskDone(gtask[a])
                THEN [gtask EXCEPT ![a] = NoGenerationTask] ELSE gtask
    /\ worker' =
          IF gtask[a].pc = "cancelled" \/ worker[a].cancel
          THEN [worker EXCEPT ![a].pc = LoopHead(a), ![a].cancel = FALSE]
          ELSE IF gtask[a].pc = "raised"
          THEN [worker EXCEPT ![a].pc = "crashed"]
          ELSE [worker EXCEPT ![a].pc = LoopHead(a)]
    /\ UNCHANGED << now, cfg, agents, messages, message_version, runtime_started,
                    ended, end_reason, generation_paused, paused_since,
                    pending_decisions, last_activity_at, last_global_speak_at,
                    total_ai_messages, recent_key_points, permits, last_spoke_at,
                    last_seen_message_version, dtask, monitor, client, closer,
                    session_events, env, history >>

\* `await generation_task` ends: lines 242-247.
W_Generated(a) ==
    /\ a \in agents /\ worker[a].pc = "generating" /\ TaskDone(gtask[a])
    /\ gtask' = [gtask EXCEPT ![a] = NoGenerationTask]
    /\ worker' =
          IF gtask[a].pc = "cancelled" \/ worker[a].cancel
          THEN [worker EXCEPT ![a].pc = LoopHead(a), ![a].cancel = FALSE]
          ELSE IF gtask[a].pc = "raised"
          THEN \* no handler for it: the exception ends the worker
               [worker EXCEPT ![a].pc = "crashed"]
          ELSE [worker EXCEPT ![a].pc = LoopHead(a)]
    /\ UNCHANGED << now, cfg, agents, messages, message_version, runtime_started,
                    ended, end_reason, generation_paused, paused_since,
                    pending_decisions, last_activity_at, last_global_speak_at,
                    total_ai_messages, recent_key_points, permits, last_spoke_at,
                    last_seen_message_version, dtask, monitor, client, closer,
                    session_events, env, history >>

\* ---------------------------------------------------------------- Reply Stage
MaxReplyAttempts == 2

Event(type, text) == [type |-> type, text |-> text]

\* bool(mention_target_name), lines 135 and 150
HasMention(g) == g.mention_target_name # None

\* What a run of the generation task leaves alone besides the log.
GenFrame ==
    UNCHANGED << now, cfg, agents, runtime_started, ended, end_reason,
                 generation_paused, paused_since, pending_decisions,
                 last_global_speak_at, recent_key_points, permits,
                 last_seen_message_version, worker, dtask, monitor, client,
                 closer, session_events, history >>

NoAppend ==
    UNCHANGED << messages, message_version, last_activity_at, total_ai_messages,
                 last_spoke_at >>

\* An append that leaves the time of the last activity alone.
FinishWithoutActivity(a) ==
    /\ AddMessage([id |-> <<"m", gtask[a].mid>>, author_type |-> "ai",
                   author_id |-> a, content |-> gtask[a].full_content])
    /\ last_activity_at' = last_activity_at
    /\ total_ai_messages' = total_ai_messages + 1
    /\ last_spoke_at' = [last_spoke_at EXCEPT ![a] = now]
    /\ gtask' = [gtask EXCEPT
                    ![a].pc = "completed",
                    ![a].events = Append(@, Event("message_completed",
                                                  gtask[a].full_content))]

\* An append that leaves the counter of agent messages alone.
FinishUncounted(a) ==
    /\ AddMessage([id |-> <<"m", gtask[a].mid>>, author_type |-> "ai",
                   author_id |-> a, content |-> gtask[a].full_content])
    /\ last_activity_at' = now
    /\ total_ai_messages' = total_ai_messages
    /\ last_spoke_at' = [last_spoke_at EXCEPT ![a] = now]
    /\ gtask' = [gtask EXCEPT
                    ![a].pc = "completed",
                    ![a].events = Append(@, Event("message_completed",
                                                  gtask[a].full_content))]

\* generate_agent_reply has returned: _generate_reply, lines 352-380, up to
\* the inside of emit("message_completed").
Finish(a) ==
    /\ AddMessage([id |-> <<"m", gtask[a].mid>>, author_type |-> "ai",
                   author_id |-> a, content |-> gtask[a].full_content])
    /\ last_activity_at' = now
    /\ total_ai_messages' = total_ai_messages + 1
    /\ last_spoke_at' = [last_spoke_at EXCEPT ![a] = now]
    /\ gtask' = [gtask EXCEPT
                    ![a].pc = "completed",
                    ![a].events = Append(@, Event("message_completed",
                                                  gtask[a].full_content))]

\* The first run of the task: lines 86-126.
G_Start(a) ==
    /\ a \in agents /\ gtask[a].pc = "new" /\ ~gtask[a].cancel
    /\ \/ \* render_prompt or create_chat_agent raises
          /\ env.budget > 0
          /\ gtask' = [gtask EXCEPT ![a].pc = "raised"]
          /\ env' = [env EXCEPT !.budget = @ - 1]
       \/ /\ gtask' = [gtask EXCEPT
                          ![a].pc = "started",
                          ![a].mid = env.mids + 1,
                          ![a].events = <<Event("message_started", <<>>)>>]
          /\ env' = [env EXCEPT !.mids = @ + 1]
    /\ NoAppend /\ GenFrame

\* emit("message_started") returns: lines 128-160.
G_Started(a) ==
    /\ a \in agents /\ gtask[a].pc = "started" /\ ~gtask[a].cancel
    /\ LET g == gtask[a]
       IN  gtask' =
             IF HasMention(g)
             THEN [gtask EXCEPT
                      ![a].pc = "prefix",
                      ![a].full_content = MentionPrefix(g.mention_target_name),
                      ![a].output_started = TRUE,
                      ![a].resolved = FALSE,
                      ![a].events = Append(@, Event("message_delta",
                                              MentionPrefix(g.mention_target_name)))]
             ELSE [gtask EXCEPT ![a].pc = "stream", ![a].resolved = TRUE]
    /\ UNCHANGED env /\ NoAppend /\ GenFrame

\* emit of the mention returns: the stream is opened, lines 146-160.
G_Prefix(a) ==
    /\ a \in agents /\ gtask[a].pc = "prefix" /\ ~gtask[a].cancel
    /\ gtask' = [gtask EXCEPT ![a].pc = "stream"]
    /\ UNCHANGED env /\ NoAppend /\ GenFrame

\* Lines 161-184 for one item of the stream: the task after it.
AfterItem(g, token) ==
    IF token = <<>> THEN g
    ELSE LET guarded == ~g.resolved /\ HasMention(g)
             buf == IF guarded THEN g.buffer \o token ELSE g.buffer
             res == IF guarded
                    THEN ConsumeLeadingDuplicateMention(buf, g.mention_target_name)
                    ELSE <<g.resolved, token>>
         IN  IF ~res[1]
             THEN [g EXCEPT !.buffer = buf, !.resolved = FALSE]
             ELSE IF res[2] # <<>>
             THEN [g EXCEPT !.buffer = buf, !.resolved = TRUE,
                            !.output_started = TRUE,
                            !.full_content = @ \o res[2],
                            !.events = Append(@, Event("message_delta", res[2])),
                            !.pc = "delta"]
             ELSE [g EXCEPT !.buffer = buf, !.resolved = TRUE,
                            !.output_started = TRUE]

\* The stream delivers an item.
G_Item(a) ==
    /\ a \in agents /\ gtask[a].pc = "stream" /\ ~gtask[a].cancel
    /\ gtask[a].items < MaxChunks
    /\ \E token \in Tokens :
          gtask' = [gtask EXCEPT ![a] = AfterItem([gtask[a] EXCEPT !.items = @ + 1], token)]
    /\ UNCHANGED env /\ NoAppend /\ GenFrame

\* emit("message_delta") of line 177 returns: the next item is awaited.
G_Delta(a) ==
    /\ a \in agents /\ gtask[a].pc = "delta" /\ ~gtask[a].cancel
    /\ gtask' = [gtask EXCEPT ![a].pc = "stream"]
    /\ UNCHANGED env /\ NoAppend /\ GenFrame

\* Line 185: the stream ended while the mention guard still holds text back.
Flushes(g) == ~g.resolved /\ g.buffer # <<>>

\* Lines 186-197: the text held back is forwarded as it came.
AfterEnd(g) ==
    [g EXCEPT !.pc = "flush",
              !.output_started = TRUE,
              !.resolved = TRUE,
              !.full_content = @ \o g.buffer,
              !.events = Append(@, Event("message_delta", g.buffer))]

\* The stream ends: lines 185-198, then the return of line 235.
G_End(a) ==
    /\ a \in agents /\ gtask[a].pc = "stream" /\ ~gtask[a].cancel
    /\ IF Flushes(gtask[a])
       THEN /\ gtask' = [gtask EXCEPT ![a] = AfterEnd(gtask[a])]
            /\ NoAppend
       ELSE Finish(a)
    /\ UNCHANGED env /\ GenFrame

\* emit of the flushed buffer returns: line 198, then the return.
G_Flush(a) ==
    /\ a \in agents /\ gtask[a].pc = "flush" /\ ~gtask[a].cancel
    /\ Finish(a)
    /\ UNCHANGED env /\ GenFrame

\* Lines 200-202: the stream's failure is retried.
RetriesReply(is_timeout, g) ==
    /\ is_timeout
    /\ strip(g.full_content) = <<>>
    /\ g.attempt < MaxReplyAttempts - 1

\* The stream raises: lines 199-214 and 228-233.
G_Fail(a) ==
    /\ a \in agents /\ gtask[a].pc = "stream" /\ ~gtask[a].cancel
    /\ env.budget > 0
    /\ env' = [env EXCEPT !.budget = @ - 1]
    /\ \E is_timeout \in BOOLEAN :
          gtask' = IF RetriesReply(is_timeout, gtask[a])
                   THEN [gtask EXCEPT ![a].pc = "retry_sleep"]
                   ELSE [gtask EXCEPT
                            ![a].pc = "error_emit",
                            ![a].events = Append(@, Event("error", <<>>))]
    /\ NoAppend /\ GenFrame

\* asyncio.sleep of line 212 ends: the second attempt opens the stream.
G_Retry(a) ==
    /\ a \in agents /\ gtask[a].pc = "retry_sleep" /\ ~gtask[a].cancel
    /\ gtask' = [gtask EXCEPT ![a].pc = "stream", ![a].attempt = @ + 1, ![a].items = 0]
    /\ UNCHANGED env /\ NoAppend /\ GenFrame

\* The awaits inside the try of lines 152-214.
InsideTry(g) == g.pc \in {"stream", "delta", "flush", "retry_sleep"}

\* A cancellation handler that appends the partial text as a message.
G_CancelAppends(a) ==
    /\ a \in agents /\ gtask[a].cancel
    /\ gtask[a].pc \in {"new", "started", "prefix", "stream", "delta", "flush",
                        "retry_sleep", "error_emit", "completed"}
    /\ IF InsideTry(gtask[a])
       THEN Finish(a)
       ELSE gtask' = [gtask EXCEPT ![a].pc = "cancelled"] /\ NoAppend
    /\ UNCHANGED env /\ GenFrame

\* The CancelledError is raised inside the task.  Inside the try the handler
\* of lines 215-227 emits message_cancelled; anywhere else nothing handles it.
G_Cancel(a) ==
    /\ a \in agents /\ gtask[a].cancel
    /\ gtask[a].pc \in {"new", "started", "prefix", "stream", "delta", "flush",
                        "retry_sleep", "error_emit", "completed"}
    /\ gtask' =
          IF InsideTry(gtask[a])
          THEN [gtask EXCEPT
                   ![a].pc = "cancel_emit",
                   ![a].events = Append(@, Event("message_cancelled",
                                                 gtask[a].full_content))]
          ELSE [gtask EXCEPT ![a].pc = "cancelled"]
    /\ UNCHANGED env /\ NoAppend /\ GenFrame

\* emit("message_cancelled") returns or is itself cancelled: the raise of line 227.
G_CancelEmitted(a) ==
    /\ a \in agents /\ gtask[a].pc = "cancel_emit"
    /\ gtask' = [gtask EXCEPT ![a].pc = "cancelled"]
    /\ UNCHANGED env /\ NoAppend /\ GenFrame

\* emit("error") returns: line 235 returns the text so far.
G_ErrorEmitted(a) ==
    /\ a \in agents /\ gtask[a].pc = "error_emit" /\ ~gtask[a].cancel
    /\ Finish(a)
    /\ UNCHANGED env /\ GenFrame

\* emit("message_completed") returns: line 382.
G_Completed(a) ==
    /\ a \in agents /\ gtask[a].pc = "completed" /\ ~gtask[a].cancel
    /\ gtask' = [gtask EXCEPT ![a].pc = "returned"]
    /\ UNCHANGED env /\ NoAppend /\ GenFrame

\* ---------------------------------------------------------------- interrupt, shutdown
\* A forced stop that sets the pause and leaves its time unset.
ForceStopUnstamped ==
    /\ generation_paused' = TRUE
    /\ paused_since' = paused_since
    /\ dtask' = StopDecisions
    /\ gtask' = StopGenerations(TRUE)

\* A forced stop that stamps the pause anew each time.
ForceStopRestamps ==
    /\ generation_paused' = TRUE
    /\ paused_since' = now
    /\ dtask' = StopDecisions
    /\ gtask' = StopGenerations(TRUE)

\* stop(force=True), lines 100-111, up to its asyncio.sleep(0).
ForceStop ==
    /\ generation_paused' = TRUE
    /\ paused_since' = IF paused_since = NoTime THEN now ELSE paused_since
    /\ dtask' = StopDecisions
    /\ gtask' = StopGenerations(TRUE)

\* shutdown, lines 131-134, up to the asyncio.sleep(0) inside stop.
ShutdownBegin(reason) ==
    /\ ended' = TRUE
    /\ end_reason' = reason
    /\ ForceStop

\* The worker is suspended on `await decision_task` / `await generation_task`
\* and the task is not done.
AwaitsDecision(a) == a \in agents /\ worker[a].pc = "deciding" /\ ~TaskDone(dtask[a])
AwaitsGeneration(a) == a \in agents /\ worker[a].pc = "generating" /\ ~TaskDone(gtask[a])

\* shutdown, lines 138-140: every worker that is not done is cancelled.  The
\* cancel() of a worker that awaits a task cancels that task in its place;
\* any other worker is marked.
CancelWorkers ==
    [a \in AllAgents |->
        IF a \in agents /\ ~WorkerDone(a) /\ ~AwaitsDecision(a) /\ ~AwaitsGeneration(a)
        THEN [worker[a] EXCEPT !.cancel = TRUE]
        ELSE worker[a]]

CancelAwaitedDecisions ==
    [a \in AllAgents |-> IF AwaitsDecision(a) THEN CancelTask(dtask[a]) ELSE dtask[a]]

CancelAwaitedGenerations ==
    [a \in AllAgents |-> IF AwaitsGeneration(a) THEN CancelTask(gtask[a]) ELSE gtask[a]]

AgentOrder == <<"a1", "a2", "a3">>

\* shutdown, lines 142-146: the workers are awaited in the order of the list.
\* "raised": a worker that ended with an exception is reached (only
\* CancelledError is suppressed); "blocked": a worker that still runs is
\* reached; "through": every worker is done.
RECURSIVE AwaitWorkersFrom(_)
AwaitWorkersFrom(i) ==
    IF i > Len(AgentOrder) THEN "through"
    ELSE IF AgentOrder[i] \notin agents THEN AwaitWorkersFrom(i + 1)
    ELSE IF worker[AgentOrder[i]].pc = "crashed" THEN "raised"
    ELSE IF ~WorkerDone(AgentOrder[i]) THEN "blocked"
    ELSE AwaitWorkersFrom(i + 1)

AwaitWorkers == AwaitWorkersFrom(1)

\* ---------------------------------------------------------------- Lifecycle Monitor
\* A monitor whose first condition asks for more messages than the cap.
MonitorVerdictAboveCap ==
    IF /\ cfg.max_total_ai_messages > 0
       /\ total_ai_messages > cfg.max_total_ai_messages
    THEN "max_total_ai_messages"
    ELSE IF generation_paused
    THEN IF /\ cfg.pause_timeout_seconds > 0
            /\ paused_since # NoTime
            /\ (now - paused_since) >= cfg.pause_timeout_seconds
         THEN "pause_timeout"
         ELSE None
    ELSE IF /\ (now - last_activity_at) >= cfg.silence_end_seconds
            /\ GenerationTasks = {}
            /\ pending_decisions = 0
    THEN "silence_timeout"
    ELSE None

\* A monitor whose silence condition looks only at the clock.
MonitorVerdictClockOnly ==
    IF /\ cfg.max_total_ai_messages > 0
       /\ total_ai_messages >= cfg.max_total_ai_messages
    THEN "max_total_ai_messages"
    ELSE IF generation_paused
    THEN IF /\ cfg.pause_timeout_seconds > 0
            /\ paused_since # NoTime
            /\ (now - paused_since) >= cfg.pause_timeout_seconds
         THEN "pause_timeout"
         ELSE None
    ELSE IF (now - last_activity_at) >= cfg.silence_end_seconds
    THEN "silence_timeout"
    ELSE None

\* A monitor that looks at the pause before the cap.
MonitorVerdictPauseFirst ==
    IF /\ generation_paused
       /\ cfg.pause_timeout_seconds > 0
       /\ paused_since # NoTime
       /\ (now - paused_since) >= cfg.pause_timeout_seconds
    THEN "pause_timeout"
    ELSE IF /\ cfg.max_total_ai_messages > 0
            /\ total_ai_messages >= cfg.max_total_ai_messages
    THEN "max_total_ai_messages"
    ELSE IF generation_paused
    THEN None
    ELSE IF /\ (now - last_activity_at) >= cfg.silence_end_seconds
            /\ GenerationTasks = {}
            /\ pending_decisions = 0
    THEN "silence_timeout"
    ELSE None

\* _monitor_lifecycle, lines 293-307: the reason the tick ends the session
\* with, or None.
MonitorVerdict ==
    IF /\ cfg.max_total_ai_messages > 0
       /\ total_ai_messages >= cfg.max_total_ai_messages
    THEN "max_total_ai_messages"
    ELSE IF generation_paused
    THEN IF /\ cfg.pause_timeout_seconds > 0
            /\ paused_since # NoTime
            /\ (now - paused_since) >= cfg.pause_timeout_seconds
         THEN "pause_timeout"
         ELSE None
    ELSE IF /\ (now - last_activity_at) >= cfg.silence_end_seconds
            /\ GenerationTasks = {}
            /\ pending_decisions = 0
    THEN "silence_timeout"
    ELSE None

MonitorFrame ==
    UNCHANGED << now, cfg, agents, messages, message_version, runtime_started,
                 pending_decisions, last_activity_at, last_global_speak_at,
                 total_ai_messages, recent_key_points, permits, last_spoke_at,
                 last_seen_message_version, client, closer, env, history >>

\* asyncio.sleep(1.0) of line 292 ends and the conditions are checked.
M_Tick ==
    /\ monitor.pc = "sleep" /\ ~monitor.cancel /\ now >= monitor.wake
    /\ IF ended
       THEN \* shutdown returns at line 130, or the loop ends at line 291
            /\ monitor' = [monitor EXCEPT !.pc = "done"]
            /\ UNCHANGED <<ended, end_reason, generation_paused, paused_since,
                           dtask, gtask>>
       ELSE IF MonitorVerdict # None
       THEN /\ ShutdownBegin(MonitorVerdict)
            /\ monitor' = [monitor EXCEPT !.pc = "sd_stop"]
       ELSE /\ monitor' = [monitor EXCEPT !.wake = now + 1]
            /\ UNCHANGED <<ended, end_reason, generation_paused, paused_since,
                           dtask, gtask>>
    /\ UNCHANGED <<worker, session_events>>
    /\ MonitorFrame

\* The monitor is cancelled in its sleep (by a shutdown another task runs).
M_Cancelled ==
    /\ monitor.pc = "sleep" /\ monitor.cancel
    /\ monitor' = [monitor EXCEPT !.pc = "cancelled", !.cancel = FALSE]
    /\ UNCHANGED <<ended, end_reason, generation_paused, paused_since, dtask,
                   gtask, worker, session_events>>
    /\ MonitorFrame

\* emit("session_ended"), lines 152-159.
EmitSessionEnded == Append(session_events, Event("session_ended", end_reason))

\* shutdown inside the monitor, lines 135-146.  Line 136 cancels the running
\* task itself: the mark stays until the task next suspends on a future,
\* which is then cancelled in its place (the first worker still running).
M_Shutdown2 ==
    /\ monitor.pc = "sd_stop"
    /\ worker' = CancelWorkers
    /\ CASE AwaitWorkers = "blocked" ->
               /\ monitor' = [monitor EXCEPT !.pc = "sd_workers", !.cancel = FALSE]
               /\ UNCHANGED session_events
         [] AwaitWorkers = "raised" ->
               /\ monitor' = [monitor EXCEPT !.pc = "raised"]
               /\ UNCHANGED session_events
         [] OTHER ->
               /\ monitor' = [monitor EXCEPT !.pc = "sd_emit", !.cancel = TRUE]
               /\ session_events' = EmitSessionEnded
    /\ dtask' = CancelAwaitedDecisions
    /\ gtask' = CancelAwaitedGenerations
    /\ UNCHANGED <<ended, end_reason, generation_paused, paused_since>>
    /\ MonitorFrame

\* The awaited workers have ended: lines 142-159.
M_Shutdown3 ==
    /\ monitor.pc = "sd_workers" /\ AwaitWorkers # "blocked"
    /\ IF AwaitWorkers = "raised"
       THEN /\ monitor' = [monitor EXCEPT !.pc = "raised"]
            /\ UNCHANGED session_events
       ELSE /\ monitor' = [monitor EXCEPT !.pc = "sd_emit"]
            /\ session_events' = EmitSessionEnded
    /\ UNCHANGED <<ended, end_reason, generation_paused, paused_since, dtask,
                   gtask, worker>>
    /\ MonitorFrame

\* emit("session_ended") returns, or the pending cancellation ends the task.
M_Shutdown4 ==
    /\ monitor.pc = "sd_emit"
    /\ monitor' = [monitor EXCEPT !.pc = IF monitor.cancel THEN "cancelled" ELSE "done",
                                  !.cancel = FALSE]
    /\ UNCHANGED <<ended, end_reason, generation_paused, paused_since, dtask,
                   gtask, worker, session_events>>
    /\ MonitorFrame

MonitorDone == monitor.pc \in {"none", "done", "cancelled", "raised"}

\* ---------------------------------------------------------------- end_session
CloserFrame ==
    UNCHANGED << now, cfg, agents, messages, message_version, runtime_started,
                 pending_decisions, last_activity_at, last_global_speak_at,
                 total_ai_messages, recent_key_points, permits, last_spoke_at,
                 last_seen_message_version, client, session_events, history >>

\* A shutdown that does not look at the ended flag.
X_BeginAgain ==
    /\ closer.pc = "idle" /\ env.budget > 0
    /\ env' = [env EXCEPT !.budget = @ - 1]
    /\ ShutdownBegin("manual_end")
    /\ closer' = [closer EXCEPT !.pc = "sd_stop"]
    /\ UNCHANGED <<worker, monitor>>
    /\ CloserFrame

\* end_session (src/src/services/session.py:131-135) calls
\* shutdown("manual_end", emit_event=False): lines 129-134.
X_Begin ==
    /\ closer.pc = "idle" /\ env.budget > 0
    /\ env' = [env EXCEPT !.budget = @ - 1]
    /\ IF ended
       THEN UNCHANGED <<closer, ended, end_reason, generation_paused,
                        paused_since, dtask, gtask>>
       ELSE /\ ShutdownBegin("manual_end")
            /\ closer' = [closer EXCEPT !.pc = "sd_stop"]
    /\ UNCHANGED <<worker, monitor>>
    /\ CloserFrame

\* Lines 135-146.
X_Shutdown2 ==
    /\ closer.pc = "sd_stop"
    /\ monitor' = IF MonitorDone THEN monitor ELSE [monitor EXCEPT !.cancel = TRUE]
    /\ worker' = CancelWorkers
    /\ dtask' = CancelAwaitedDecisions
    /\ gtask' = CancelAwaitedGenerations
    /\ closer' = [closer EXCEPT !.pc = "sd_workers"]
    /\ UNCHANGED <<ended, end_reason, generation_paused, paused_since, env>>
    /\ CloserFrame

\* Lines 142-150: the workers, then the monitor, are awaited.
X_Shutdown3 ==
    /\ closer.pc = "sd_workers" /\ AwaitWorkers # "blocked"
    /\ closer' = [closer EXCEPT !.pc = IF AwaitWorkers = "raised" THEN "raised"
                                       ELSE "sd_monitor"]
    /\ UNCHANGED <<ended, end_reason, generation_paused, paused_since, dtask,
                   gtask, env, worker, monitor>>
    /\ CloserFrame

X_Shutdown4 ==
    /\ closer.pc = "sd_monitor" /\ MonitorDone
    /\ closer' = [closer EXCEPT !.pc = IF monitor.pc = "raised" THEN "raised" ELSE "done"]
    /\ UNCHANGED <<ended, end_reason, generation_paused, paused_since, dtask,
                   gtask, env, worker, monitor>>
    /\ CloserFrame

\* ---------------------------------------------------------------- the websocket client
ClientFrame ==
    UNCHANGED << cfg, agents, ended, end_reason, pending_decisions,
                 last_global_speak_at, total_ai_messages, recent_key_points,
                 last_spoke_at, last_seen_message_version, closer, now >>

\* handle_new_message from line 116 on, up to its next await.
AfterStartRuntime(author_type, id) ==
    IF author_type = "user"
    THEN /\ generation_paused' = FALSE
         /\ paused_since' = NoTime
         /\ dtask' = StopDecisions
         /\ gtask' = StopGenerations(FALSE)
         /\ client' = [pc |-> "hnm_stop", author_type |-> author_type, id |-> id]
         /\ history' = [history EXCEPT !.spared =
                            {a \in GenerationTasks :
                                ~TaskDone(gtask[a]) /\ ~StopGenerations(FALSE)[a].cancel}]
         /\ UNCHANGED <<messages, message_version>>
    ELSE /\ AddMessage([id |-> <<"h", id>>, author_type |-> author_type,
                        author_id |-> None, content |-> <<>>])
         /\ client' = [pc |-> "idle", author_type |-> None, id |-> 0]
         /\ UNCHANGED <<generation_paused, paused_since, dtask, gtask, history>>

\* A start that looks only at the ended flag.
StartsRuntimeAgain == ~ended

\* start_runtime, line 77: the call goes on to launch the tasks.
StartsRuntime == ~runtime_started /\ ~ended

\* handle_new_message is called: start_runtime, lines 77-96, and, when the
\* runtime was started before, line 116 on.
H_Begin ==
    /\ client.pc = "idle" /\ env.budget > 0
    /\ env' = [env EXCEPT !.budget = @ - 1]
    /\ \E author_type \in AuthorTypes :
          IF StartsRuntime
          THEN /\ runtime_started' = TRUE
               /\ last_activity_at' = now
               /\ permits' = 2
               /\ worker' = [a \in AllAgents |->
                                IF a \in agents THEN [worker[a] EXCEPT !.pc = "wait"]
                                ELSE worker[a]]
               /\ monitor' = [pc |-> "sleep", cancel |-> FALSE, wake |-> now + 1]
               /\ session_events' = Append(session_events, Event("runtime_started", None))
               /\ client' = [pc |-> "hnm_started", author_type |-> author_type,
                             id |-> env.budget]
               /\ UNCHANGED <<generation_paused, paused_since, dtask, gtask,
                              messages, message_version, history>>
          ELSE /\ AfterStartRuntime(author_type, env.budget)
               /\ last_activity_at' = IF author_type = "user" THEN last_activity_at ELSE now
               /\ UNCHANGED <<runtime_started, permits, worker, monitor, session_events>>
    /\ ClientFrame

\* emit("runtime_started") returns.
H_Started ==
    /\ client.pc = "hnm_started"
    /\ AfterStartRuntime(client.author_type, client.id)
    /\ last_activity_at' = IF client.author_type = "user" THEN last_activity_at ELSE now
    /\ UNCHANGED <<runtime_started, permits, worker, monitor, session_events, env>>
    /\ ClientFrame

\* asyncio.sleep(0) of stop returns: lines 121-123.
H_Append ==
    /\ client.pc = "hnm_stop"
    /\ AddMessage([id |-> <<"h", client.id>>, author_type |-> client.author_type,
                   author_id |-> None, content |-> <<>>])
    /\ last_activity_at' = now
    /\ client' = [pc |-> "idle", author_type |-> None, id |-> 0]
    /\ history' = [history EXCEPT !.spared = {}]
    /\ UNCHANGED <<runtime_started, permits, worker, monitor, session_events, env,
                   generation_paused, paused_since, dtask, gtask>>
    /\ ClientFrame

\* The client's "stop" (src/src/api/ws.py:157-159): stop(force=True).
S_Stop ==
    /\ client.pc = "idle" /\ env.budget > 0
    /\ env' = [env EXCEPT !.budget = @ - 1]
    /\ ForceStop
    /\ UNCHANGED <<runtime_started, permits, worker, monitor, session_events,
                   messages, message_version, last_activity_at, client, history>>
    /\ ClientFrame

\* ---------------------------------------------------------------- time
\* The event loop runs a timer that is due before the clock moves on.
AdvanceTime ==
    /\ env.budget > 0
    /\ env' = [env EXCEPT !.budget = @ - 1]
    /\ monitor.pc = "sleep" /\ ~monitor.cancel => now < monitor.wake
    /\ now' = now + 1
    /\ UNCHANGED << cfg, agents, messages, message_version, runtime_started, ended,
                    end_reason, generation_paused, paused_since, pending_decisions,
                    last_activity_at, last_global_speak_at, total_ai_messages,
                    recent_key_points, permits, last_spoke_at,
                    last_seen_message_version, worker, dtask, gtask, monitor,
                    client, closer, session_events, history >>

\* ---------------------------------------------------------------- specification
\* With at most two agents and two permits no decision ever waits at the
\* gate, so D_Acquire is not among the actions of these runs.
Next ==
    \/ \E a \in AllAgents : D_Start(a)
    \/ \E a \in AllAgents : D_Call(a)
    \/ \E a \in AllAgents : D_Backoff(a)
    \/ \E a \in AllAgents : W_Wait(a)
    \/ \E a \in AllAgents : W_Decided(a)
    \/ \E a \in AllAgents : W_AfterStatus(a)
    \/ \E a \in AllAgents : W_Generated(a)
    \/ \E a \in AllAgents : G_Start(a)
    \/ \E a \in AllAgents : G_Started(a)
    \/ \E a \in AllAgents : G_Prefix(a)
    \/ \E a \in AllAgents : G_Item(a)
    \/ \E a \in AllAgents : G_Delta(a)
    \/ \E a \in AllAgents : G_End(a)
    \/ \E a \in AllAgents : G_Flush(a)
    \/ \E a \in AllAgents : G_Fail(a)
    \/ \E a \in AllAgents : G_Retry(a)
    \/ \E a \in AllAgents : G_Cancel(a)
    \/ \E a \in AllAgents : G_CancelEmitted(a)
    \/ \E a \in AllAgents : G_ErrorEmitted(a)
    \/ \E a \in AllAgents : G_Completed(a)
    \/ M_Tick
    \/ M_Cancelled
    \/ M_Shutdown2
    \/ M_Shutdown3
    \/ M_Shutdown4
    \/ X_Begin
    \/ X_Shutdown2
    \/ X_Shutdown3
    \/ X_Shutdown4
    \/ H_Begin
    \/ H_Started
    \/ H_Append
    \/ S_Stop
    \/ AdvanceTime

Spec == Init /\ [][Next]_vars
SpecSolo == InitSolo /\ [][Next]_vars
SpecLong == InitLong /\ [][Next]_vars

\* ---------------------------------------------------------------- fairness
\* The event loop runs every task that is ready, and the awaits on the
\* outside (the collaborator's call and stream, the event sink, the sleeps)
\* come back.  What the client, end_session and the clock do is not forced.
WorkerStep(a) == W_Wait(a) \/ W_Decided(a) \/ W_AfterStatus(a) \/ W_Generated(a)
DecisionStep(a) == D_Start(a) \/ D_Call(a) \/ D_Backoff(a)
GenerationStep(a) ==
    \/ G_Start(a) \/ G_Started(a) \/ G_Prefix(a) \/ G_Item(a) \/ G_Delta(a)
    \/ G_End(a) \/ G_Flush(a) \/ G_Fail(a) \/ G_Retry(a) \/ G_Cancel(a)
    \/ G_CancelEmitted(a) \/ G_ErrorEmitted(a) \/ G_Completed(a)
HandlerStep == H_Started \/ H_Append

Fairness ==
    /\ \A a \in AllAgents :
          WF_vars(WorkerStep(a)) /\ WF_vars(DecisionStep(a)) /\ WF_vars(GenerationStep(a))
    /\ WF_vars(HandlerStep)

SpecSoloFair == InitSolo /\ [][Next]_vars /\ Fairness

\* The monitor task and the task that runs end_session are tasks of the same
\* loop; the monitor's tick waits for the clock and is not forced.
MonitorStep == M_Cancelled \/ M_Shutdown2 \/ M_Shutdown3 \/ M_Shutdown4
CloserStep == X_Shutdown2 \/ X_Shutdown3 \/ X_Shutdown4
SpecLongFair ==
    /\ InitLong /\ [][Next]_vars
    /\ Fairness /\ WF_vars(MonitorStep) /\ WF_vars(CloserStep)

\* ---------------------------------------------------------------- gate
\* Three agents share the two permits, so a decision can wait at the gate.
\* With one event less than in the runs above no generation is failed or
\* cancelled, and the actions of those paths are not among NextGate.
InitGate == InitWith(AllAgents, MaxEvents - 1)

NextGate ==
    \/ \E a \in AllAgents : D_Start(a)
    \/ \E a \in AllAgents : D_Acquire(a)
    \/ \E a \in AllAgents : D_Call(a)
    \/ \E a \in AllAgents : D_Backoff(a)
    \/ \E a \in AllAgents : W_Wait(a)
    \/ \E a \in AllAgents : W_Decided(a)
    \/ \E a \in AllAgents : W_AfterStatus(a)
    \/ \E a \in AllAgents : W_Generated(a)
    \/ \E a \in AllAgents : G_Start(a)
    \/ \E a \in AllAgents : G_Started(a)
    \/ \E a \in AllAgents : G_Prefix(a)
    \/ \E a \in AllAgents : G_Item(a)
    \/ \E a \in AllAgents : G_Delta(a)
    \/ \E a \in AllAgents : G_End(a)
    \/ \E a \in AllAgents : G_Flush(a)
    \/ \E a \in AllAgents : G_Completed(a)
    \/ M_Tick
    \/ M_Cancelled
    \/ M_Shutdown2
    \/ M_Shutdown3
    \/ M_Shutdown4
    \/ X_Begin
    \/ X_Shutdown2
    \/ X_Shutdown3
    \/ X_Shutdown4
    \/ H_Begin
    \/ H_Started
    \/ H_Append
    \/ S_Stop
    \/ AdvanceTime

SpecGate == InitGate /\ [][NextGate]_vars

\* ---------------------------------------------------------------- mention guard
\* The mention guard of generate_agent_reply taken alone: one generation
\* that replies to the agent named "B" and has emitted its mention, fed
\* every text of at most MaxStream characters in every split into chunks.
MaxStream == 4
Chars == {"@", "B", " ", ",", "h"}
Streams == UNION { [1..n -> Chars] : n \in 0..MaxStream }

Min(S) == CHOOSE x \in S : \A y \in S : x <= y

\* The items the stream delivers when text s is cut after the places in cuts.
RECURSIVE Chunked(_, _)
Chunked(s, cuts) ==
    IF s = <<>> THEN <<>>
    ELSE LET k == IF cuts = {} THEN Len(s) ELSE Min(cuts)
         IN  <<SubSeq(s, 1, k)>> \o Chunked(DropFirst(s, k), {c - k : c \in cuts \ {k}})

Guarded == "a1"

InitGuard ==
    /\ now = StartTime
    /\ cfg \in Configs
    /\ agents = {Guarded}
    /\ messages = <<>>
    /\ message_version = 0
    /\ runtime_started = TRUE
    /\ ended = FALSE
    /\ end_reason = None
    /\ generation_paused = FALSE
    /\ paused_since = NoTime
    /\ pending_decisions = 0
    /\ last_activity_at = 0
    /\ last_global_speak_at = StartTime
    /\ total_ai_messages = 0
    /\ recent_key_points = <<>>
    /\ permits = 2
    /\ last_spoke_at = [a \in AllAgents |-> 0]
    /\ last_seen_message_version = [a \in AllAgents |-> 0]
    /\ worker = [a \in AllAgents |->
                    [pc |-> IF a = Guarded THEN "generating" ELSE "none",
                     cancel |-> FALSE, decision |-> SilentDecision]]
    /\ dtask = [a \in AllAgents |-> NoDecisionTask]
    /\ gtask = [a \in AllAgents |->
                   IF a = Guarded
                   THEN [NoGenerationTask EXCEPT
                            !.pc = "stream", !.mid = 1,
                            !.mention_target_name = <<"B">>,
                            !.full_content = MentionPrefix(<<"B">>),
                            !.output_started = TRUE,
                            !.resolved = FALSE,
                            !.events = << Event("message_started", <<>>),
                                          Event("message_delta", MentionPrefix(<<"B">>)) >>]
                   ELSE NoGenerationTask]
    /\ monitor = [pc |-> "sleep", cancel |-> FALSE, wake |-> StartTime + 1]
    /\ client = [pc |-> "idle", author_type |-> None, id |-> 0]
    /\ closer = [pc |-> "idle"]
    /\ session_events = <<>>
    /\ \E s \in Streams : \E cuts \in SUBSET (1..(Len(s) - 1)) :
          env = [budget |-> 0, mids |-> 1, stream |-> s, chunks |-> Chunked(s, cuts)]
    /\ history = [approved_at |-> [a \in AllAgents |-> NoTime], spared |-> {}]

\* The stream delivers its next item: lines 156-184.
K_Item ==
    /\ gtask[Guarded].pc = "stream" /\ env.chunks # <<>>
    /\ gtask' = [gtask EXCEPT ![Guarded] = AfterItem(@, Head(env.chunks))]
    /\ env' = [env EXCEPT !.chunks = Tail(@)]
    /\ NoAppend /\ GenFrame

\* The stream has delivered all its items: lines 185-198.
K_End == env.chunks = <<>> /\ G_End(Guarded)

NextGuard == K_Item \/ G_Delta(Guarded) \/ K_End \/ G_Flush(Guarded)

SpecGuard == InitGuard /\ [][NextGuard]_vars

\* ---------------------------------------------------------------- pacing alone
\* The pacing check of one worker taken alone: the decisions of the external
\* model reach _approve_speech one after another, a second apart, each with
\* key points not seen before, with those of the first decision or with
\* those of the decision before it, as they are or in another spelling.
MaxIssued == 10
Paced == "a1"

KeyPointLetter(n) == <<"k", "b", "h">>[(n % 3) + 1]
KeyPointText(i) ==
    <<KeyPointLetter(i), KeyPointLetter(i \div 3), KeyPointLetter(i \div 9)>>
\* The same key points with a capital and blanks around them.
Respelled(kp) ==
    <<" ">> \o [i \in 1..Len(kp) |->
                  IF i = 1 THEN (CASE kp[1] = "k" -> "K" [] kp[1] = "b" -> "B"
                                   [] OTHER -> "H")
                  ELSE kp[i]] \o <<" ">>

InitPacing ==
    /\ now = StartTime
    /\ cfg \in Configs
    /\ agents = {Paced}
    /\ messages = <<>>
    /\ message_version = 0
    /\ runtime_started = TRUE
    /\ ended = FALSE
    /\ end_reason = None
    /\ generation_paused = FALSE
    /\ paused_since = NoTime
    /\ pending_decisions = 0
    /\ last_activity_at = StartTime
    /\ last_global_speak_at = 0
    /\ total_ai_messages = 0
    /\ recent_key_points = <<>>
    /\ permits = 2
    /\ last_spoke_at = [a \in AllAgents |-> 0]
    /\ last_seen_message_version = [a \in AllAgents |-> 0]
    /\ worker = [a \in AllAgents |->
                    [pc |-> IF a = Paced THEN "wait" ELSE "none",
                     cancel |-> FALSE, decision |-> SilentDecision]]
    /\ dtask = [a \in AllAgents |-> NoDecisionTask]
    /\ gtask = [a \in AllAgents |-> NoGenerationTask]
    /\ monitor = [pc |-> "sleep", cancel |-> FALSE, wake |-> StartTime + 1]
    /\ client = [pc |-> "idle", author_type |-> None, id |-> 0]
    /\ closer = [pc |-> "idle"]
    /\ session_events = <<>>
    /\ env = [budget |-> MaxIssued, mids |-> 0, issued |-> 0]
    /\ history = [approved_at |-> [a \in AllAgents |-> NoTime], spared |-> {}]

\* The next decision of the worker is back and its status event is out:
\* lines 207-229, a second after the decision before it.
P_Decision ==
    /\ env.budget > 0
    /\ worker[Paced].pc \in {"wait", "generating"}
    /\ \E i \in {1, env.issued, env.issued + 1} \ {0} : \E respell \in BOOLEAN :
          worker' = [worker EXCEPT
                        ![Paced].pc = "status",
                        ![Paced].decision =
                            [action |-> "comment", target_author_name |-> None,
                             key_points |-> IF respell THEN Respelled(KeyPointText(i))
                                            ELSE KeyPointText(i)]]
    /\ gtask' = [gtask EXCEPT ![Paced] = NoGenerationTask]
    /\ now' = now + 1
    /\ env' = [env EXCEPT !.budget = @ - 1, !.issued = @ + 1]
    /\ UNCHANGED << cfg, agents, messages, message_version, runtime_started, ended,
                    end_reason, generation_paused, paused_since, pending_decisions,
                    last_activity_at, last_global_speak_at, total_ai_messages,
                    recent_key_points, permits, last_spoke_at,
                    last_seen_message_version, dtask, monitor, client, closer,
                    session_events, history >>

NextPacing == P_Decision \/ W_AfterStatus(Paced)

SpecPacing == InitPacing /\ [][NextPacing]_vars

\* ---------------------------------------------------------------- properties
\* The events of one generation, read by the properties below.
CountType(evs, t) == Cardinality({i \in 1..Len(evs) : evs[i].type = t})

\* The text the message_delta events of evs carry, in order.
RECURSIVE Forwarded(_)
Forwarded(evs) ==
    IF evs = <<>> THEN <<>>
    ELSE (IF Head(evs).type = "message_delta" THEN Head(evs).text ELSE <<>>)
         \o Forwarded(Tail(evs))

Terminal == {"message_completed", "message_cancelled", "error"}

\* The message of generation mid is in the log.
Logged(mid) == \E i \in 1..Len(messages) : messages[i].id = <<"m", mid>>

\* This step appends a message of agent a to the log.
AppendsBy(a) ==
    /\ Len(messages') = Len(messages) + 1
    /\ messages'[Len(messages')].author_id = a

\* This step is the interrupt of a handle_new_message with a human message.
InterruptStep == client.pc # "hnm_stop" /\ client'.pc = "hnm_stop"

\* This step takes the worker of a into Deciding / Generating.
EntersDeciding(a) == worker[a].pc # "deciding" /\ worker'[a].pc = "deciding"
EntersGenerating(a) == worker[a].pc # "generating" /\ worker'[a].pc = "generating"

CapReached ==
    /\ cfg.max_total_ai_messages > 0
    /\ total_ai_messages >= cfg.max_total_ai_messages

\* C1: a generation that was cancelled after its message was started has
\* emitted exactly one message_cancelled event, that event carries the text
\* emitted so far (the mention prefix and every forwarded delta), and no
\* message_completed event was emitted for the message.
C1_CancelledEventExactlyOnce ==
    \A a \in agents :
        LET evs == gtask[a].events
        IN  gtask[a].pc = "cancelled" /\ evs # <<>> =>
               /\ CountType(evs, "message_cancelled") = 1
               /\ \A i \in 1..Len(evs) :
                     evs[i].type = "message_cancelled" => evs[i].text = Forwarded(evs)
               /\ CountType(evs, "message_completed") = 0

\* C2: a generation whose stream failed with an error that is not a
\* cancellation (an error event was emitted) appends no message to the log.
C2_FailedStreamAppendsNothing ==
    \A a \in agents :
        CountType(gtask[a].events, "error") > 0 => ~Logged(gtask[a].mid)

\* C3: the events of a generation are one message_started, then
\* message_delta events, then at most one terminal event (message_completed,
\* message_cancelled or error) after which nothing follows: no completed
\* after an error, no delta after a terminal event.
C3_EventOrder ==
    \A a \in agents :
        LET evs == gtask[a].events
        IN  evs # <<>> =>
               /\ evs[1].type = "message_started"
               /\ \A i \in 2..Len(evs) : evs[i].type \in {"message_delta"} \cup Terminal
               /\ \A i \in 1..(Len(evs) - 1) : evs[i].type \notin Terminal

\* C4: the interrupt of a human message clears the pause and comes before
\* the append; it cancels every decision in flight and every generation in
\* flight that has emitted no output; a cancelled generation appends
\* nothing and a cancelled decision leads to no status and no generation.
C4_HumanMessageInterrupts ==
    [][ /\ InterruptStep =>
            /\ ~generation_paused'
            /\ messages' = messages
            /\ \A a \in agents :
                  /\ AwaitsDecision(a) => dtask'[a].cancel
                  /\ AwaitsGeneration(a) /\ ~gtask[a].output_started => gtask'[a].cancel
        /\ \A a \in agents :
              /\ gtask[a].cancel => ~AppendsBy(a)
              /\ worker[a].pc = "deciding" /\ dtask[a].cancel =>
                    worker'[a].pc \notin {"status", "generating"}
      ]_vars

\* A human message has just cancelled a decision of one agent and a
\* generation without output of another.
C4_Witness ==
    /\ client.pc = "hnm_stop" /\ ~ended /\ ~generation_paused
    /\ \E a \in agents : AwaitsDecision(a) /\ dtask[a].cancel
    /\ \E a \in agents : AwaitsGeneration(a) /\ gtask[a].cancel /\ ~gtask[a].output_started

\* C5: the interrupt of a human message does not cancel a generation that
\* has emitted output, and such a generation appends its message after the
\* human message: not between the interrupt and the append of that message.
C5_SparedGenerationAppendsAfterHuman ==
    [][ /\ InterruptStep =>
            \A a \in agents :
                AwaitsGeneration(a) /\ gtask[a].output_started /\ ~gtask[a].cancel
                    => ~gtask'[a].cancel
        /\ \A a \in history.spared : ~AppendsBy(a)
      ]_vars

\* C6: stop(force=True) sets the pause and cancels every decision and every
\* generation in flight; while the pause is set no worker enters Deciding,
\* no decision task starts a call of the model, no worker enters Generating
\* and no agent message is appended.
C6_ForcedInterruptHolds ==
    [][ /\ S_Stop =>
            /\ generation_paused'
            /\ \A a \in agents :
                  /\ AwaitsDecision(a) => dtask'[a].cancel
                  /\ AwaitsGeneration(a) => gtask'[a].cancel
        /\ generation_paused =>
            \A a \in agents :
                /\ ~EntersDeciding(a)
                /\ ~(dtask[a].pc # "call" /\ dtask'[a].pc = "call")
                /\ ~EntersGenerating(a)
                /\ ~AppendsBy(a)
      ]_vars

\* A forced stop has cancelled a generation that had emitted output.
C6_Witness ==
    /\ generation_paused /\ ~ended
    /\ \E a \in agents : AwaitsGeneration(a) /\ gtask[a].cancel /\ gtask[a].output_started

\* C7: an approval of an agent comes at least agent_cooldown_seconds after
\* the agent's previous approval.
C7_ApprovalsCooldownApart ==
    [][ \A a \in agents :
            /\ worker[a].pc = "status" /\ EntersGenerating(a)
            /\ history.approved_at[a] # NoTime
            => now - history.approved_at[a] >= cfg.agent_cooldown_seconds
      ]_vars

\* C8: while the cap is reached and the session has not ended the monitor
\* sleeps towards a tick that is due within one second, and that tick ends
\* the session with reason max_total_ai_messages.
C8_MonitorEndsAtCap ==
    [][ /\ CapReached /\ ~ended =>
            /\ monitor.pc = "sleep" /\ ~monitor.cancel
            /\ now <= monitor.wake /\ monitor.wake <= now + 1
        /\ M_Tick /\ CapReached /\ ~ended =>
            ended' /\ end_reason' = "max_total_ai_messages"
      ]_vars

\* The monitor has ended a session at the cap.
C8_Witness ==
    /\ ended /\ end_reason = "max_total_ai_messages"
    /\ CapReached /\ monitor.pc = "sd_stop"

\* C9: once the cap is reached no worker enters Deciding.
C9_NoDecisionAfterCap ==
    [][ CapReached => \A a \in agents : ~EntersDeciding(a) ]_vars

\* C10: the version equals the number of messages in the log; a step either
\* leaves both alone or appends one message and adds one to the version.
C10_VersionCountsAppends ==
    [][ /\ message_version = Len(messages)
        /\ \/ messages' = messages /\ message_version' = message_version
           \/ /\ Len(messages') = Len(messages) + 1
              /\ SubSeq(messages', 1, Len(messages)) = messages
              /\ message_version' = message_version + 1
      ]_vars

\* A human message and an agent message have been appended.
C10_Witness ==
    /\ message_version = 2 /\ Len(messages) = 2
    /\ messages[1].author_type = "user" /\ messages[2].author_type = "ai"

\* The text the guarded generation forwarded after its mention.
GuardForwarded ==
    DropFirst(gtask[Guarded].full_content,
              Len(MentionPrefix(gtask[Guarded].mention_target_name)))

GuardReturned == gtask[Guarded].pc = "completed"

\* C11: when the stream begins with the mention "@T " the stage has already
\* emitted, then however the stream is split into chunks, the text forwarded
\* after the mention is the stream without that leading mention and without
\* at most one punctuation character that follows it (white space the guard
\* strips on the way is not counted).
C11_DuplicateMentionRemoved ==
    LET T == gtask[Guarded].mention_target_name
        r == DropFirst(env.stream, Len(MentionPrefix(T)))
        l == lstrip(r)
    IN  GuardReturned /\ startswith(env.stream, MentionPrefix(T)) =>
            GuardForwarded \in
                {r, l} \cup (IF l # <<>> /\ Head(l) \in PUNCT
                             THEN {Tail(l), lstrip(Tail(l))} ELSE {})

\* C12: when the stream does not begin with a mention of the target (the
\* name followed by the end of the text, white space or punctuation), the
\* text forwarded is the concatenation of the chunks, unchanged, however the
\* stream is split.
C12_OtherTextUnchanged ==
    LET T == gtask[Guarded].mention_target_name
        expected == <<"@">> \o T
        t == lstrip(env.stream)
        mentions == /\ startswith(t, expected)
                    /\ \/ Len(t) = Len(expected)
                       \/ t[Len(expected) + 1] \in WS \cup PUNCT
    IN  GuardReturned /\ ~mentions => GuardForwarded = env.stream

\* The decision tasks that are inside the collaborator call of line 74.
InCall == {a \in agents : dtask[a].pc = "call"}

\* C13: at most 2 calls to the decision collaborator are in flight; the
\* permits are held by exactly the tasks that are inside a call (none by a
\* task that waits at the gate, sleeps in its backoff, has returned, failed
\* or was cancelled), so permits in use plus permits free is always 2.
C13_GatePermits ==
    runtime_started =>
        /\ Cardinality(InCall) <= 2
        /\ permits >= 0
        /\ permits + Cardinality(InCall) = 2

\* A retried decision waits at the gate while the two permits are in use:
\* its own permit was given back before its backoff.
C13_Witness ==
    /\ permits = 0
    /\ \E a \in agents : dtask[a].pc = "acquire" /\ dtask[a].attempt = 1

\* C14: a decision makes at most 3 calls to the collaborator, and the
\* Decision Stage never ends with an error that is not a cancellation: every
\* failure ends in the decision "silent".
C14_DecisionNeverRaises ==
    \A a \in agents :
        /\ dtask[a].attempt < MaxDecisionAttempts
        /\ dtask[a].pc # "raised"

\* C15: shutdown is idempotent.  The first call sets the ended flag and the
\* end reason; from then on the flag stays set and the reason stays that of
\* the first call.  A later call, by end_session or by the monitor with the
\* reason of its own condition, also while the first call still awaits the
\* workers, changes no state of the orchestrator.  At most one session_ended
\* event is emitted.
C15_ShutdownIdempotent ==
    [][ /\ (~ended /\ ended' => end_reason' # None)
        /\ (ended => ended' /\ end_reason' = end_reason)
        /\ (ended /\ X_Begin =>
               UNCHANGED << now, cfg, agents, messages, message_version,
                            runtime_started, ended, end_reason, generation_paused,
                            paused_since, pending_decisions, last_activity_at,
                            last_global_speak_at, total_ai_messages,
                            recent_key_points, permits, last_spoke_at,
                            last_seen_message_version, worker, dtask, gtask,
                            monitor, client, closer, session_events >>)
        /\ (ended /\ M_Tick =>
               /\ monitor'.pc = "done"
               /\ UNCHANGED << now, cfg, agents, messages, message_version,
                               runtime_started, ended, end_reason, generation_paused,
                               paused_since, pending_decisions, last_activity_at,
                               last_global_speak_at, total_ai_messages,
                               recent_key_points, permits, last_spoke_at,
                               last_seen_message_version, worker, dtask, gtask,
                               client, closer, session_events >>)
        /\ CountType(session_events', "session_ended") <= 1 ]_vars

\* end_session ended the session, and the monitor's tick after it found one
\* of its conditions true: its shutdown call, with another reason, returned
\* at once.
C15_Witness ==
    /\ ended /\ end_reason = "manual_end"
    /\ monitor.pc = "done" /\ now = monitor.wake
    /\ MonitorVerdict = "pause_timeout"

\* C16: a first call of shutdown, by end_session or by the monitor, does not
\* end with an error, and when it has returned every worker and the monitor
\* have terminated and no decision or generation task is outstanding.
C16_ShutdownReturns ==
    /\ closer.pc # "raised"
    /\ monitor.pc # "raised"
    /\ (closer.pc = "done" \/ (monitor.pc = "done" /\ end_reason \notin {None, "manual_end"})) =>
          /\ \A a \in agents : WorkerDone(a)
          /\ MonitorDone
          /\ DecisionTasks = {} /\ GenerationTasks = {}

\* The tasks start_runtime creates exist (running or ended).
Launched ==
    /\ \A a \in agents : worker[a].pc # "none"
    /\ monitor.pc # "none"

\* C17: start is idempotent.  Whatever calls were made, the worker of each
\* agent and the monitor were launched at most once, by the first start of a
\* session that had not ended: runtime_started was emitted once and the tasks
\* exist exactly when the runtime is started.  A call that finds the runtime
\* started, or the session ended, launches nothing and changes nothing of
\* what start writes.
C17_StartIdempotent ==
    [][ /\ (runtime_started => runtime_started')
        /\ CountType(session_events', "runtime_started") = (IF runtime_started' THEN 1 ELSE 0)
        /\ (runtime_started' => Launched')
        /\ (~runtime_started' => \A a \in agents : worker'[a].pc = "none")
        /\ (~runtime_started' => monitor'.pc = "none")
        /\ (\A a \in agents : worker[a].pc # "none" /\ worker'[a].pc = "wait" =>
                                   worker[a].pc \in {"wait", "deciding", "status", "generating"})
        /\ (H_Begin /\ (runtime_started \/ ended) =>
               UNCHANGED <<runtime_started, permits, worker, monitor, session_events>>) ]_vars

\* Two human messages were handled after one start.
C17_Witness ==
    /\ runtime_started
    /\ Cardinality({i \in 1..Len(messages) : messages[i].author_type = "user"}) >= 2

\* This step ends the session with the given reason.
EndsWith(reason) == ~ended /\ ended' /\ end_reason' = reason

\* C18: the session ends with reason silence_timeout only in a tick of the
\* monitor taken when the session is not paused, at least silence_end_seconds
\* have passed since the last activity, no generation is in flight and no
\* decision is pending; the reason is never written in any other step, so a
\* paused session is never ended with it.
C18_SilenceTimeoutOnlyWhenSilent ==
    [][ /\ (end_reason' = "silence_timeout" /\ end_reason # "silence_timeout" =>
               EndsWith("silence_timeout"))
        /\ (EndsWith("silence_timeout") =>
               /\ M_Tick
               /\ ~generation_paused
               /\ (now - last_activity_at) >= cfg.silence_end_seconds
               /\ GenerationTasks = {}
               /\ \A a \in agents : gtask[a].pc = "none" \/ TaskDone(gtask[a])
               /\ pending_decisions = 0
               /\ DecisionTasks = {} ) ]_vars

C18_Witness == ended /\ end_reason = "silence_timeout"

\* C19: the session ends with reason pause_timeout only in a tick of the
\* monitor taken when the session is paused, pause_timeout_seconds is above 0
\* and at least that long has passed since the pause started.  The start of
\* the pause is the time of the forced stop that set the pause: while the
\* session stays paused, later forced stops do not move it.  With
\* pause_timeout_seconds = 0 no session ends with pause_timeout.
C19_PauseTimeoutOnlyWhenPaused ==
    [][ /\ (end_reason' = "pause_timeout" /\ end_reason # "pause_timeout" =>
               EndsWith("pause_timeout"))
        /\ (EndsWith("pause_timeout") =>
               /\ M_Tick
               /\ generation_paused
               /\ cfg.pause_timeout_seconds > 0
               /\ paused_since # NoTime
               /\ (now - paused_since) >= cfg.pause_timeout_seconds)
        /\ (~generation_paused /\ generation_paused' => paused_since' = now)
        /\ (generation_paused /\ generation_paused' => paused_since' = paused_since)
        /\ (cfg.pause_timeout_seconds = 0 => end_reason' # "pause_timeout") ]_vars

C19_Witness == ended /\ end_reason = "pause_timeout"

\* A step of the decision or the generation of agent a, or of its worker
\* taking the outcome: every failure of the agent is such a step.
StageStep(a) ==
    \/ D_Start(a) \/ D_Call(a) \/ D_Backoff(a) \/ W_Decided(a)
    \/ G_Start(a) \/ G_Fail(a) \/ G_Retry(a) \/ G_ErrorEmitted(a) \/ W_Generated(a)

\* C20: the ended flag is set only by a tick of the monitor that finds one of
\* its three conditions (cap reached; paused for pause_timeout_seconds;
\* silent for silence_end_seconds with nothing in flight), with that
\* condition as the reason, or by the shutdown of end_session.  No step of
\* one agent's decision or generation, failed or not, sets the flag or
\* changes the worker or the tasks of another agent.
C20_FailuresStayLocal ==
    [][ /\ (~ended /\ ended' =>
               \/ /\ M_Tick
                  /\ \/ end_reason' = "max_total_ai_messages" /\ CapReached
                     \/ /\ end_reason' = "pause_timeout"
                        /\ generation_paused
                        /\ (now - paused_since) >= cfg.pause_timeout_seconds
                     \/ /\ end_reason' = "silence_timeout"
                        /\ ~generation_paused
                        /\ (now - last_activity_at) >= cfg.silence_end_seconds
               \/ X_Begin /\ end_reason' = "manual_end")
        /\ (\A a \in agents : StageStep(a) =>
               /\ ended' = ended
               /\ \A b \in agents \ {a} :
                     worker'[b] = worker[b] /\ dtask'[b] = dtask[b] /\ gtask'[b] = gtask[b]) ]_vars

\* The worker of one agent has ended with the error of its generation; the
\* session goes on and the worker of another agent runs.
C20_Witness ==
    /\ ~ended
    /\ \E a, b \in agents :
          /\ a # b
          /\ worker[a].pc = "crashed"
          /\ worker[b].pc \in {"wait", "deciding", "status", "generating"}
          /\ ~worker[b].cancel

\* C21: in every reachable state the paused flag is set exactly when the
\* time the pause started is set: the forced stop, shutdown and the handling
\* of a human message write the two together.
C21_PausedIffStamped == generation_paused <=> (paused_since # NoTime)

\* A pause that has lasted one second, in a session that goes on.
C21_Witness == generation_paused /\ paused_since # NoTime /\ now > paused_since /\ ~ended

\* The agent-authored messages of a log.
AgentMessages(log) == {i \in 1..Len(log) : log[i].author_type = "ai"}

\* C22: the counter of agent messages never decreases and always equals the
\* number of agent-authored messages in the log; the step that appends an
\* agent's message is the step that adds one to the counter and writes the
\* agent's last-spoken time and the last-activity time, and no other step
\* changes the counter.
C22_TotalCountsAgentMessages ==
    [][ /\ total_ai_messages' >= total_ai_messages
        /\ total_ai_messages' = Cardinality(AgentMessages(messages'))
        /\ (\A a \in agents : AppendsBy(a) =>
               /\ total_ai_messages' = total_ai_messages + 1
               /\ last_spoke_at'[a] = now
               /\ last_activity_at' = now)
        /\ (total_ai_messages' # total_ai_messages => \E a \in agents : AppendsBy(a)) ]_vars

\* An agent's message is in the log next to a human message.
C22_Witness ==
    /\ total_ai_messages = 1
    /\ Len(messages) >= 2
    /\ AgentMessages(messages) # {}

\* The step in which the worker of a runs _approve_speech on its decision.
PacingStep(a) ==
    /\ W_AfterStatus(a)
    /\ ~worker[a].cancel
    /\ worker[a].decision.action # "silent"
    /\ ~generation_paused

\* The four rejection conditions, for agent a and key-point string kp.
PacingRejects(a, kp) ==
    \/ (now - last_spoke_at[a]) < cfg.agent_cooldown_seconds
    \/ /\ cfg.global_speak_interval_seconds > 0
       /\ (now - last_global_speak_at) < cfg.global_speak_interval_seconds
    \/ /\ cfg.max_total_ai_messages > 0
       /\ total_ai_messages >= cfg.max_total_ai_messages
    \/ InSeq(kp, recent_key_points)

\* C23 as stated: the pacing check approves exactly when none of the four
\* rejection conditions holds; on approval it records now as the last global
\* speak time and pushes the key-point string onto the buffer; on rejection
\* it leaves both unchanged.
C23_ApprovalPushesKeyPoints ==
    [][ \A a \in agents : PacingStep(a) =>
          LET kp == lower(strip(worker[a].decision.key_points))
              approved == worker'[a].pc = "generating"
          IN  /\ approved <=> ~PacingRejects(a, kp)
              /\ approved => /\ last_global_speak_at' = now
                             /\ recent_key_points' = DequeAppend(recent_key_points, kp)
              /\ ~approved => UNCHANGED <<last_global_speak_at, recent_key_points>> ]_vars

\* C23, amended: as above, but the key-point string is pushed (and looked
\* for in the buffer) only when it is not empty after trimming; an approval
\* of a decision without key points leaves the buffer unchanged.
C23_ApprovalPushesNonEmptyKeyPoints ==
    [][ \A a \in agents : PacingStep(a) =>
          LET kp == lower(strip(worker[a].decision.key_points))
              approved == worker'[a].pc = "generating"
          IN  /\ approved <=> ~PacingRejects(a, kp)
              /\ <<>> \notin {recent_key_points[i] : i \in 1..Len(recent_key_points)}
              /\ approved => /\ last_global_speak_at' = now
                             /\ recent_key_points' =
                                   IF kp # <<>> THEN DequeAppend(recent_key_points, kp)
                                   ELSE recent_key_points
              /\ ~approved => UNCHANGED <<last_global_speak_at, recent_key_points>> ]_vars

\* A decision was approved and its key points are in the buffer; the worker
\* is back from that generation and has a decision with the same key points.
C23_Witness ==
    \E a \in agents :
        /\ worker[a].pc = "status"
        /\ worker[a].decision.action # "silent"
        /\ ~generation_paused
        /\ lower(strip(worker[a].decision.key_points)) # <<>>
        /\ InSeq(lower(strip(worker[a].decision.key_points)), recent_key_points)
        /\ ~CooldownActive(a)

\* A step of the generation task of a, or of its worker taking the outcome,
\* made after the task's cancellation was delivered.
CancelledGenerationStep(a) ==
    /\ gtask[a].cancel \/ gtask[a].pc \in {"cancel_emit", "cancelled"}
    /\ gtask'[a] # gtask[a]

\* C24: a cancelled generation changes no shared state once the cancellation
\* is delivered: every step it makes from then on leaves the log, the log
\* version, the counter of agent messages, the last-spoken times, the
\* last-activity time, the last global speak time and the key-point buffer
\* as they were.
C24_CancelledGenerationWritesNothing ==
    [][ \A a \in agents : CancelledGenerationStep(a) =>
          UNCHANGED << messages, message_version, total_ai_messages, last_spoke_at,
                       last_activity_at, last_global_speak_at, recent_key_points >> ]_vars

\* A generation was cancelled in its stream and has emitted message_cancelled.
C24_Witness ==
    \E a \in agents :
        /\ gtask[a].pc = "cancelled"
        /\ CountType(gtask[a].events, "message_cancelled") = 1

\* This step is the approval of a decision of agent a.
ApprovalStep(a) == worker[a].pc = "status" /\ worker'[a].pc = "generating"

\* C25: the pacing approval is one atomic check-and-update.  A step approves
\* at most one worker, and writes the time of the approval as the last
\* global speak time; with global_speak_interval_seconds > 0 the approval
\* comes at least that long after every earlier approval, of the same or of
\* another agent, and the value it read is older than the one it writes, so
\* no two approvals are made on the same value.
C25_ApprovalsIntervalApart ==
    [][ \A a \in agents : ApprovalStep(a) =>
          /\ \A b \in agents \ {a} : ~ApprovalStep(b)
          /\ last_global_speak_at' = now
          /\ \A b \in agents :
                history.approved_at[b] # NoTime => history.approved_at[b] <= last_global_speak_at
          /\ cfg.global_speak_interval_seconds > 0 =>
                /\ last_global_speak_at' > last_global_speak_at
                /\ \A b \in agents :
                      history.approved_at[b] # NoTime =>
                          (now - history.approved_at[b]) >= cfg.global_speak_interval_seconds ]_vars

\* One agent was approved at this time; another, outside its cooldown, has a
\* decision to speak and is about to run the pacing check on the value the
\* first approval wrote.
C25_Witness ==
    /\ cfg.global_speak_interval_seconds > 0
    /\ ~generation_paused
    /\ \E a, b \in agents :
          /\ a # b
          /\ history.approved_at[a] = now
          /\ worker[b].pc = "status" /\ ~worker[b].cancel
          /\ worker[b].decision.action # "silent"
          /\ ~CooldownActive(b)

\* The worker of a is in its loop (it has not returned or ended with an error).
InLoop(a) == worker[a].pc \in {"wait", "deciding", "status", "generating"}

\* The worker of a has just started a decision on the log as it is now.
DecidesOnNewest(a) ==
    /\ worker[a].pc = "deciding" /\ dtask[a].pc = "new"
    /\ last_seen_message_version[a] = message_version

C27_WorkerRunsUntilEnd ==
    ~ended /\ runtime_started =>
        \A a \in agents : InLoop(a) /\ ~worker[a].cancel

\* A task the worker created that is not done.
OutstandingDecision(a) == dtask[a].pc # "none" /\ ~TaskDone(dtask[a])
OutstandingGeneration(a) == gtask[a].pc # "none" /\ ~TaskDone(gtask[a])

\* C28: each worker has at most one outstanding task: a decision task is
\* outstanding only while its worker awaits it in Deciding, a generation task
\* only while its worker awaits it in Generating, never both, so neither kind
\* outnumbers the agents.
C28_OneTaskPerWorker ==
    /\ \A a \in AllAgents :
          /\ OutstandingDecision(a) => a \in agents /\ worker[a].pc = "deciding"
          /\ OutstandingGeneration(a) => a \in agents /\ worker[a].pc = "generating"
          /\ ~(OutstandingDecision(a) /\ OutstandingGeneration(a))
          /\ a \in DecisionTasks => dtask[a].pc # "none" /\ gtask[a].pc = "none"
          /\ a \in GenerationTasks => gtask[a].pc # "none" /\ dtask[a].pc = "none"
    /\ Cardinality({a \in AllAgents : OutstandingDecision(a)}) <= Cardinality(agents)
    /\ Cardinality({a \in AllAgents : OutstandingGeneration(a)}) <= Cardinality(agents)

C28_Witness ==
    \E a, b \in agents :
        a # b /\ OutstandingDecision(a) /\ OutstandingGeneration(b)

\* C29: a worker's last-observed version never decreases and never exceeds the
\* log's version; it changes only in that worker's own wait, which sets it to
\* the log's version, and a wait that finds the session ended leaves it alone.
C29_LastSeenFollowsLog ==
    [][\A a \in AllAgents :
          /\ last_seen_message_version'[a] >= last_seen_message_version[a]
          /\ last_seen_message_version'[a] <= message_version'
          /\ last_seen_message_version[a] <= message_version
          /\ last_seen_message_version'[a] # last_seen_message_version[a] =>
                /\ W_Wait(a) /\ ~ended /\ ~worker[a].cancel
                /\ last_seen_message_version'[a] = message_version]_vars

\* A wait found the session ended with a message the worker had not seen.
C29_Witness ==
    \E a \in agents :
        /\ worker[a].pc = "done" /\ ended
        /\ 0 < last_seen_message_version[a]
        /\ last_seen_message_version[a] < message_version

\* The decision task has been cancelled and has not yet taken the cancellation.
DecisionCancelPending(a) ==
    dtask[a].cancel /\ dtask[a].pc \in {"new", "acquire", "call", "backoff"}

EmittedOutput(g) == \E i \in 1..Len(g.events) : g.events[i].type = "message_delta"

\* The step after which the Reply Stage waits for its second attempt.
RetryStep(a) == gtask[a].pc # "retry_sleep" /\ gtask'[a].pc = "retry_sleep"

\* C31: the Reply Stage opens the stream at most twice per generation; it
\* goes on to the second attempt only from a first attempt during which no
\* output (mention or delta) was emitted, and never once it is cancelled.
C31_RetryOnlyBeforeOutput ==
    [][\A a \in agents :
          /\ gtask'[a].attempt <= MaxReplyAttempts - 1
          /\ RetryStep(a) =>
                /\ gtask[a].attempt = 0
                /\ ~gtask[a].cancel
                /\ ~EmittedOutput(gtask[a])
          /\ gtask[a].cancel /\ gtask[a].pc # "none" =>
                gtask'[a].pc = "none" \/ gtask'[a].attempt = gtask[a].attempt]_vars

\* Lines 297-300: the session is paused and has been for the pause timeout.
PausedPastTimeout ==
    /\ generation_paused /\ paused_since # NoTime
    /\ cfg.pause_timeout_seconds > 0
    /\ (now - paused_since) >= cfg.pause_timeout_seconds

\* C32: the monitor's tick checks cap, pause timeout, silence timeout in that
\* order and the first match gives the reason: with the cap reached the
\* reason is max_total_ai_messages whatever the pause and the silence are;
\* else a pause past its timeout gives pause_timeout; silence_timeout is
\* given only with the cap not reached and the session not paused.
C32_MonitorOrder ==
    [][M_Tick /\ ~ended =>
          /\ CapReached => EndsWith("max_total_ai_messages")
          /\ ~CapReached /\ PausedPastTimeout => EndsWith("pause_timeout")
          /\ EndsWith("pause_timeout") => ~CapReached
          /\ EndsWith("silence_timeout") => ~CapReached /\ ~generation_paused]_vars

\* The tick has just ended the session for the cap although the session had
\* also been paused for longer than the pause timeout.
C32_Witness ==
    /\ monitor.pc = "sd_stop" /\ ended /\ end_reason = "max_total_ai_messages"
    /\ cfg.pause_timeout_seconds > 0
    /\ paused_since # NoTime
    /\ (now - paused_since) >= cfg.pause_timeout_seconds

\* C33: the log is append-only: in every step the log before the step is a
\* prefix of the log after it, message by message and field by field.
C33_LogAppendOnly ==
    [][ /\ Len(messages') >= Len(messages)
        /\ \A i \in 1..Len(messages) : messages'[i] = messages[i] ]_vars

\* A human message, an agent's message and another human message are in the log.
C33_Witness ==
    /\ Len(messages) = 3
    /\ messages[1].author_type = "user"
    /\ messages[2].author_type = "ai"
    /\ messages[3].author_type = "user"

\* No two entries of q are equal.
NoDuplicates(q) == \A i, j \in 1..Len(q) : q[i] = q[j] => i = j

\* C34: the recent key-point buffer holds at most 8 entries, no two of them
\* equal; a push onto a buffer of 8 drops the oldest entry and keeps the
\* others in order, a push onto a shorter buffer drops nothing.
C34_KeyPointBufferBounded ==
    [][ /\ Len(recent_key_points') <= KeyPointCapacity
        /\ NoDuplicates(recent_key_points')
        /\ recent_key_points' # recent_key_points =>
              LET n == Len(recent_key_points)
              IN  IF n = KeyPointCapacity
                  THEN /\ Len(recent_key_points') = n
                       /\ SubSeq(recent_key_points', 1, n - 1) = Tail(recent_key_points)
                  ELSE /\ Len(recent_key_points') = n + 1
                       /\ SubSeq(recent_key_points', 1, n) = recent_key_points
      ]_vars

\* The buffer is full and the key points approved first are no longer in it.
C34_Witness ==
    /\ Len(recent_key_points) = KeyPointCapacity
    /\ ~InSeq(KeyPointText(1), recent_key_points)
    /\ worker[Paced].pc = "generating"

\* C35: with a cap configured the log never holds more agent-authored
\* messages than the cap.
C35_AgentMessagesWithinCap ==
    cfg.max_total_ai_messages > 0 =>
        Cardinality(AgentMessages(messages)) <= cfg.max_total_ai_messages

\* The text forwarded after the mention when the stream s arrives as one
\* chunk: lines 163-198 for a single item, then the end of the stream.
ForwardedWhole(s, target_name) ==
    IF s = <<>> THEN <<>>
    ELSE LET res == ConsumeLeadingDuplicateMention(s, target_name)
         IN  IF res[1] THEN res[2] ELSE s

\* C36: the text forwarded after the mention does not depend on the chunks:
\* however the stream is split, it is the text forwarded when the stream
\* arrives whole.
C36_ChunkingIndependent ==
    GuardReturned =>
        GuardForwarded = ForwardedWhole(env.stream, gtask[Guarded].mention_target_name)

\* C37: once the ended flag is set no agent message is appended and no
\* worker starts a decision or a generation.
C37_NothingStartsAfterEnd ==
    [][ended =>
          \A a \in agents :
              /\ ~AppendsBy(a)
              /\ ~EntersDeciding(a)
              /\ ~EntersGenerating(a)]_vars

\* The session_ended events emitted so far.
SessionEndedEvents ==
    {i \in 1..Len(session_events) : session_events[i].type = "session_ended"}

\* The monitor has ended the session.
MonitorEnded ==
    ended /\ end_reason \in {"max_total_ai_messages", "pause_timeout", "silence_timeout"}

\* C38: a session_ended event is emitted only when every worker has stopped,
\* it carries the reason the session ended with and it is the only one; and
\* once the monitor has ended the session that event is eventually emitted.
C38_MonitorEndIsAnnounced ==
    /\ [][session_events' # session_events
             /\ session_events'[Len(session_events')].type = "session_ended" =>
                 /\ \A a \in agents : WorkerDone(a)
                 /\ session_events'[Len(session_events')].text = end_reason
                 /\ SessionEndedEvents = {}
                 /\ MonitorEnded]_vars
    /\ MonitorEnded ~> (Cardinality(SessionEndedEvents) = 1)

\* C39: every append, human or agent, sets the time of the last activity to
\* the time of the append, that time never goes back, and the monitor ends
\* the session for silence only silence_end_seconds or more after it: never
\* sooner than that after the most recent append.
C39_AppendResetsSilenceClock ==
    [][ /\ messages' # messages => last_activity_at' = now /\ now' = now
        /\ last_activity_at' >= last_activity_at
        /\ last_activity_at' <= now'
        /\ EndsWith("silence_timeout") =>
              now - last_activity_at >= cfg.silence_end_seconds ]_vars

\* The monitor has just ended the session for silence after an agent's message.
C39_Witness ==
    /\ monitor.pc = "sd_stop" /\ ended /\ end_reason = "silence_timeout"
    /\ Len(messages) = 2 /\ messages[2].author_type = "ai"
    /\ now - last_activity_at >= cfg.silence_end_seconds

\* C40: the pending-decision counter is never negative and equals the number
\* of workers in Deciding, so it is 0 whenever no worker is in Deciding.
C40_PendingCountsDeciding ==
    /\ pending_decisions >= 0
    /\ pending_decisions = Cardinality({a \in agents : worker[a].pc = "deciding"})
    /\ (\A a \in agents : worker[a].pc # "deciding") => pending_decisions = 0

\* One worker has a cancelled decision it has not yet taken notice of; the
\* other has been through a decision on the newest message and is idle again.
C40_Witness ==
    \E a, b \in agents :
        /\ a # b /\ ~ended /\ ~generation_paused
        /\ worker[a].pc = "deciding" /\ dtask[a].pc = "cancelled"
        /\ worker[b].pc = "wait" /\ message_version = 2
        /\ last_seen_message_version[b] = message_version
        /\ pending_decisions = 1

====
